---- MODULE Spec2Model ----
(***************************************************************************)
(* Clause-boundary segmentation engine of app/services/clause_chunking.py  *)
(* (ClauseChunkingService): structural signals, local scoring with a       *)
(* hysteresis head, two-state dynamic programme, optional cross-encoder    *)
(* review, span post-processing.                                           *)
(*                                                                         *)
(* Numbers: every weight, score, threshold and cosine is kept in           *)
(* hundredths (1.2 is 120).  A text is a sequence of characters, one       *)
(* one-character string per code point; a code point outside ASCII is      *)
(* written "U+XXXX".                                                       *)
(***************************************************************************)
EXTENDS Integers, Sequences, FiniteSets, TLC

(***************************************************************************)
(* Characters                                                              *)
(***************************************************************************)
Space == {" ", "\t", "\n"}

Digit == {"0", "1", "2", "3", "4", "5", "6", "7", "8", "9"}

Lower ==
    {"a", "b", "c", "d", "e", "f", "g", "h", "i", "j", "k", "l", "m", "n", "o", "p",
     "q", "r", "s", "t", "u", "v", "w", "x", "y", "z"}

Upper ==
    {"A", "B", "C", "D", "E", "F", "G", "H", "I", "J", "K", "L", "M", "N", "O", "P",
     "Q", "R", "S", "T", "U", "V", "W", "X", "Y", "Z"}

RomanLower == {"i", "v", "x", "l", "c", "d", "m"}

RomanUpper == {"I", "V", "X", "L", "C", "D", "M"}

\* [一二三四五六七八九十]
CjkNumeral ==
    {"U+4E00", "U+4E8C", "U+4E09", "U+56DB", "U+4E94", "U+516D", "U+4E03", "U+516B",
     "U+4E5D", "U+5341"}

\* [①-⑳⑴-⒇Ⓐ-Ⓩⓐ-ⓩ]
Circled ==
    {"U+2460", "U+2461", "U+2462", "U+2463", "U+2464", "U+2465", "U+2466", "U+2467",
     "U+2468", "U+2469", "U+246A", "U+246B", "U+246C", "U+246D", "U+246E", "U+246F",
     "U+2470", "U+2471", "U+2472", "U+2473", "U+2474", "U+2475", "U+2476", "U+2477",
     "U+2478", "U+2479", "U+247A", "U+247B", "U+247C", "U+247D", "U+247E", "U+247F",
     "U+2480", "U+2481", "U+2482", "U+2483", "U+2484", "U+2485", "U+2486", "U+2487",
     "U+24B6", "U+24B7", "U+24B8", "U+24B9", "U+24BA", "U+24BB", "U+24BC", "U+24BD",
     "U+24BE", "U+24BF", "U+24C0", "U+24C1", "U+24C2", "U+24C3", "U+24C4", "U+24C5",
     "U+24C6", "U+24C7", "U+24C8", "U+24C9", "U+24CA", "U+24CB", "U+24CC", "U+24CD",
     "U+24CE", "U+24CF", "U+24D0", "U+24D1", "U+24D2", "U+24D3", "U+24D4", "U+24D5",
     "U+24D6", "U+24D7", "U+24D8", "U+24D9", "U+24DA", "U+24DB", "U+24DC", "U+24DD",
     "U+24DE", "U+24DF", "U+24E0", "U+24E1", "U+24E2", "U+24E3", "U+24E4", "U+24E5",
     "U+24E6", "U+24E7", "U+24E8", "U+24E9"}

\* self._BULLETS
BULLETS ==
    {"U+00B7", "U+2013", "U+2014", "U+2022", "U+2023", "U+2043", "U+2219", "U+25A0",
     "U+25A1", "U+25AA", "U+25AB", "U+25AE", "U+25AF", "U+25B6", "U+25B8", "U+25B9",
     "U+25BA", "U+25BB", "U+25C6", "U+25C7", "U+25CB", "U+25CF", "U+25E6", "U+2726",
     "U+2727", "U+2756", "U+30FB", "U+FF0D"}

\* (':', '：')
Colons == {":", "U+FF1A"}

\* ('，', ',', '；', ';', '、', '：', ':')
SoftEnds == {"U+FF0C", ",", "U+FF1B", ";", "U+3001", "U+FF1A", ":"}

\* keys and values of `pairs` in unclosed_bracket
Openers == {"(", "U+FF08", "[", "U+3010", "{", "U+3008", "U+300A", "<"}

Closers == {")", "U+FF09", "]", "U+3011", "}", "U+3009", "U+300B", ">"}

\* str.isalpha / str.isupper on the characters above
IsAlpha(c) == c \in Lower \cup Upper \cup CjkNumeral

IsUpper(c) == c \in Upper

(***************************************************************************)
(* Structural signals: pure functions of a block's text                    *)
(***************************************************************************)
MinOf(S) == CHOOSE x \in S : \A y \in S : x <= y

MaxOf(S) == CHOOSE x \in S : \A y \in S : x >= y

\* str.lstrip()
LStrip(s) ==
    LET I == {i \in 1..Len(s) : s[i] \notin Space}
    IN  IF I = {} THEN <<>> ELSE SubSeq(s, MinOf(I), Len(s))

\* str.rstrip()
RStrip(s) ==
    LET I == {i \in 1..Len(s) : s[i] \notin Space}
    IN  IF I = {} THEN <<>> ELSE SubSeq(s, 1, MaxOf(I))

\* str.strip()
Strip(s) == RStrip(LStrip(s))

\* the position \s* reaches from p (greedy; what follows is never a space)
SkipWs(s, p) ==
    LET I == {q \in p..Len(s) : s[q] \notin Space}
    IN  IF I = {} THEN Len(s) + 1 ELSE MinOf(I)

AllIn(s, p, q, C) == \A k \in p..q : s[k] \in C

\* positions right after a match, from p, of
\* (?:\d{1,3}|[ivxlcdm]{1,8}|[IVXLCDM]{1,8}|[a-zA-Z])
IndexEnds(s, p) ==
    {p + k : k \in {k \in 1..3 : p + k - 1 <= Len(s) /\ AllIn(s, p, p + k - 1, Digit)}}
    \cup {p + k : k \in {k \in 1..8 : p + k - 1 <= Len(s) /\ AllIn(s, p, p + k - 1, RomanLower)}}
    \cup {p + k : k \in {k \in 1..8 : p + k - 1 <= Len(s) /\ AllIn(s, p, p + k - 1, RomanUpper)}}
    \cup {p + 1 : k \in {k \in {1} : p <= Len(s) /\ s[p] \in Lower \cup Upper}}

\* (?:\s+|$) at position p
EnumTail(s, p) == p > Len(s) \/ s[p] \in Space

\* an index from p, then \s*, then one character of C, then the tail
IndexThen(s, p, C) ==
    \E q \in IndexEnds(s, p) :
        LET r == SkipWs(s, q)
        IN  r <= Len(s) /\ s[r] \in C /\ EnumTail(s, r + 1)

\* self._RE_ENUM.search(s) / .match(s): the pattern is anchored at the start
RE_ENUM(s) ==
    LET p == SkipWs(s, 1)
    IN  \/ /\ p <= Len(s)
           /\ s[p] \in {"(", "[", "{"}
           /\ IndexThen(s, SkipWs(s, p + 1), {")", "]", "}"})
        \/ IndexThen(s, p, {")", "]", "}"})
        \/ IndexThen(s, p, {".", "U+3001"})
        \/ p <= Len(s) /\ s[p] \in Circled /\ EnumTail(s, p + 1)

looks_bullet_char(s) ==
    LET t == LStrip(s)
    IN  t # <<>> /\ t[1] \in BULLETS

is_enum_like(s) ==
    IF s = <<>> THEN FALSE ELSE RE_ENUM(s) \/ looks_bullet_char(s)

EndsWith(t, C) == t # <<>> /\ t[Len(t)] \in C

\* re.search(r'[一二三四五六七八九十]+\s*[、.．)]?$', t)
NumeralTail(t) ==
    \E e \in {Len(t)} \cup {Len(t) - 1 : k \in {k \in {1} : EndsWith(t, {"U+3001", ".", "U+FF0E", ")"})}} :
        LET I == {q \in 1..e : t[q] \notin Space}
        IN  I # {} /\ t[MaxOf(I)] \in CjkNumeral

UpperRatioHigh(t) ==
    LET letters == {i \in 1..Len(t) : IsAlpha(t[i])}
        up == Cardinality({i \in letters : IsUpper(t[i])})
    IN  letters # {} /\ 10 * up >= 6 * Cardinality(letters)

\* is_heading_shape without the enumeration clause
is_heading_shape_no_enum(text) ==
    LET t == Strip(text)
    IN  IF t = <<>> THEN FALSE
        ELSE IF Len(t) <= 8 /\ (EndsWith(t, Colons) \/ NumeralTail(t)) THEN TRUE
        ELSE IF Len(t) <= 60
             THEN EndsWith(t, Colons) \/ UpperRatioHigh(t)
             ELSE FALSE

is_heading_shape(text) ==
    LET t == Strip(text)
    IN  IF t = <<>> THEN FALSE
        ELSE IF Len(t) <= 8 /\ (EndsWith(t, Colons) \/ NumeralTail(t)) THEN TRUE
        ELSE IF Len(t) <= 60
             THEN \/ EndsWith(t, Colons)
                  \/ RE_ENUM(t) /\ Len(t) <= 40
                  \/ UpperRatioHigh(t)
             ELSE FALSE

ends_colon(s) == EndsWith(RStrip(s), Colons)

ends_soft(s) == EndsWith(RStrip(s), SoftEnds)

\* the counter with the closing brackets left uncounted
BracketCountOpenersOnly(s) == Cardinality({p \in 1..Len(s) : s[p] \in Openers})

RECURSIVE BracketCount(_)
BracketCount(s) ==
    IF s = <<>> THEN 0
    ELSE LET ch == s[Len(s)]
             rest == BracketCount(SubSeq(s, 1, Len(s) - 1))
         IN  IF ch \in Openers THEN rest + 1
             ELSE IF ch \in Closers THEN rest - 1
             ELSE rest

unclosed_bracket(s) == IF s = <<>> THEN FALSE ELSE BracketCount(s) > 0

\* '  ': whitespace only: dropped by the pre-filter
TxtBlank ==
    <<" ", " ">>

\* 'The term lasts.': no structural signal
TxtPlainA ==
    <<"T", "h", "e", " ", "t", "e", "r", "m", " ", "l", "a", "s", "t", "s", ".">>

\* 'It ends in May.': no structural signal
TxtPlainB ==
    <<"I", "t", " ", "e", "n", "d", "s", " ", "i", "n", " ", "M", "a", "y", ".">>

\* '(a) x': enumeration marker, heading-shaped, short
TxtEnum ==
    <<"(", "a", ")", " ", "x">>

\* 'Term:': heading-shaped, ends with a colon (soft), short
TxtHead ==
    <<"T", "e", "r", "m", ":">>

\* 'and the Buyer,': soft ending
TxtSoft ==
    <<"a", "n", "d", " ", "t", "h", "e", " ", "B", "u", "y", "e", "r", ",">>

\* 'see (a': unclosed bracket, short
TxtOpen ==
    <<"s", "e", "e", " ", "(", "a">>

\* 'TERMS': heading-shaped by upper-case ratio, short
TxtCaps ==
    <<"T", "E", "R", "M", "S">>

\* '1. The Seller shall deliver the goods promptly.': enumeration marker, too long for a heading
TxtItem ==
    <<"1", ".", " ", "T", "h", "e", " ", "S", "e", "l", "l", "e", "r", " ", "s", "h",
      "a", "l", "l", " ", "d", "e", "l", "i", "v", "e", "r", " ", "t", "h", "e", " ",
      "g", "o", "o", "d", "s", " ", "p", "r", "o", "m", "p", "t", "l", "y", ".">>

\* 'Article 1 Definitions'
ExText0 ==
    <<"A", "r", "t", "i", "c", "l", "e", " ", "1", " ", "D", "e", "f", "i", "n", "i",
      "t", "i", "o", "n", "s">>

\* "(a) 'Agreement' means this contract."
ExText1 ==
    <<"(", "a", ")", " ", "'", "A", "g", "r", "e", "e", "m", "e", "n", "t", "'", " ",
      "m", "e", "a", "n", "s", " ", "t", "h", "i", "s", " ", "c", "o", "n", "t", "r",
      "a", "c", "t", ".">>

\* "(b) 'Party' means a signatory."
ExText2 ==
    <<"(", "b", ")", " ", "'", "P", "a", "r", "t", "y", "'", " ", "m", "e", "a", "n",
      "s", " ", "a", " ", "s", "i", "g", "n", "a", "t", "o", "r", "y", ".">>

\* 'Article 2 Term'
ExText3 ==
    <<"A", "r", "t", "i", "c", "l", "e", " ", "2", " ", "T", "e", "r", "m">>

\* 'This Agreement is valid for two years.'
ExText4 ==
    <<"T", "h", "i", "s", " ", "A", "g", "r", "e", "e", "m", "e", "n", "t", " ", "i",
      "s", " ", "v", "a", "l", "i", "d", " ", "f", "o", "r", " ", "t", "w", "o", " ",
      "y", "e", "a", "r", "s", ".">>
(***************************************************************************)
(* Configuration: chunk_blocks' config_map over _clause_chunk's defaults   *)
(***************************************************************************)
\* the defaults of _clause_chunk, in hundredths (indent_jump, short_len_bias
\* and batch_size are plain integers; ema_alpha is in hundredths)
DefaultCfg ==
    [indent_jump |-> 16, w_enum |-> 150, w_indent_back |-> 160,
     w_indent_forward |-> 40, w_lead |-> 100, w_heading |-> 80, w_soft |-> 100,
     w_sem_start |-> 100, w_sem_cont |-> 80, sem_margin_pos |-> 10,
     sem_margin_neg |-> -6, ema_alpha |-> 30, short_len_bias |-> 8,
     short_len_cont_bonus |-> 60, bias_start |-> -80, pen_SS |-> -60,
     pen_CC |-> 10, pen_SC |-> 0, pen_CS |-> 0, tie_margin |-> 25,
     ce_delta_start |-> -5, ce_delta_cont |-> 5, batch_size |-> 64]

config_map ==
    [contract |->
        [w_heading |-> 120, w_indent_back |-> 180, w_enum |-> 150,
         w_sem_start |-> 100, w_sem_cont |-> 80, sem_margin_neg |-> -6,
         sem_margin_pos |-> 10, pen_SS |-> -60, pen_CC |-> 15],
     summary |->
        [w_heading |-> 100, w_indent_back |-> 120, w_enum |-> 160,
         w_sem_start |-> 120, w_sem_cont |-> 60, sem_margin_neg |-> -4,
         sem_margin_pos |-> 12, pen_SS |-> -80, pen_CC |-> 10],
     single |->
        [w_heading |-> 60, w_indent_back |-> 100, w_enum |-> 120,
         w_sem_start |-> 60, w_sem_cont |-> 100, sem_margin_neg |-> -8,
         sem_margin_pos |-> 6, pen_SS |-> -120, pen_CC |-> 20,
         short_len_cont_bonus |-> 80, ema_alpha |-> 35]]

\* the lookup falling back to the "summary" profile
ModeCfgFallsToSummary(m) ==
    IF m \in DOMAIN config_map THEN config_map[m] ELSE config_map["summary"]

\* config_map.get(mode, config_map["contract"])
ModeCfg(m) == IF m \in DOMAIN config_map THEN config_map[m] ELSE config_map["contract"]

\* the profile taken as it is, the defaults left out
MergeCfgNoDefaults(base, over) == over

\* dict union  defaults | (cfg or {})
MergeCfg(base, over) ==
    [k \in DOMAIN base \cup DOMAIN over |->
        IF k \in DOMAIN over THEN over[k] ELSE base[k]]

EffectiveCfg(m) == MergeCfg(DefaultCfg, ModeCfg(m))

(***************************************************************************)
(* Inputs                                                                  *)
(***************************************************************************)
\* the longest block list a call is given
MaxBlocks == 3

\* the mode names a caller passes; "legal" is not a key of config_map
ModeNames == {"contract", "summary", "single", "legal"}

\* what a failing model load or model call raises
ExcKinds == {"OSError", "RuntimeError"}

\* the absent index
None == -1

START == 0

CONT == 1

\* an embedding is a unit vector in the plane at a multiple of 45 degrees;
\* CosTable[k + 1] is the dot product of two of them k steps apart
CosTable == <<100, 71, 0, -71, -100>>

Angles == 0..4

Abs(x) == IF x < 0 THEN -x ELSE x

\* the blocks a caller passes: text and indent
Palette ==
    {[text |-> TxtBlank, indent |-> 0],
     [text |-> TxtPlainA, indent |-> 0],
     [text |-> TxtPlainB, indent |-> 0],
     [text |-> TxtEnum, indent |-> 16],
     [text |-> TxtHead, indent |-> 0],
     [text |-> TxtSoft, indent |-> 0],
     [text |-> TxtOpen, indent |-> 16],
     [text |-> TxtCaps, indent |-> 0],
     [text |-> TxtItem, indent |-> 16]}

\* the embedding model of the run: one direction per text
PaletteEncoder ==
    (TxtPlainA :> 0) @@ (TxtSoft :> 0) @@ (TxtEnum :> 1) @@ (TxtItem :> 1)
    @@ (TxtOpen :> 2) @@ (TxtPlainB :> 2) @@ (TxtHead :> 3) @@ (TxtCaps :> 4)

\* a Python list as a function on 0..n-1
ListsOf(S, n) == [0..(n - 1) -> S]

ZLen(f) == Cardinality(DOMAIN f)

(***************************************************************************)
(* State                                                                   *)
(***************************************************************************)
VARIABLES
    emb_model,          \* self._emb_model: "None" or "loaded"
    cross_encoder,      \* self._cross_encoder: "None" or "loaded"
    encoder,            \* the embedding model a load yields: text -> direction
    pc,                 \* where the current chunk_blocks call stands
    blocks,             \* the caller's block list
    mode,
    use_cross_encoder,
    cfg,
    fblocks,            \* _blocks: the blocks left by the pre-filter
    V,                  \* the embedding of each block of _blocks
    sig,                \* the pre-computed structural signals
    i,                  \* the scoring loop's index
    s_start,
    s_cont,
    prev_idx,
    head_idx,
    d_prev,             \* the smoothed difference, as num / den hundredths
    dp_states,          \* the labels the back-trace yields
    states,             \* the labels after the cross-encoder review
    to_review,
    scores,             \* what the cross-encoder returned for the pairs
    raw_spans,          \* the spans built from the labels
    spans,              \* _post_fix_spans' list while it is swept
    merged,
    mi,                 \* the merge sweep's index
    merge_log,          \* one entry per singleton the sweep has met
    outcome,            \* "none", "returned" or "raised"
    ret_spans,
    ret_texts,
    exc,                \* the exception that left the call
    failed_at,          \* the model load or model call that raised, or "none"
    prior,              \* what an earlier call with these inputs returned
    documents,          \* the documents table, a row's id its position
    files,              \* the paths present in local storage
    storage_log,        \* the storage calls of the request being served
    response,           \* what the last document request answered
    bg_tasks            \* the background tasks scheduled

svcVars == <<emb_model, cross_encoder, encoder>>

inVars == <<blocks, mode, use_cross_encoder, cfg>>

prepVars == <<fblocks, V, sig>>

scoreVars == <<i, s_start, s_cont, prev_idx, head_idx, d_prev>>

decVars == <<dp_states, states, to_review, scores>>

postVars == <<raw_spans, spans, merged, mi, merge_log>>

outVars == <<outcome, ret_spans, ret_texts, exc, failed_at>>

docVars == <<documents, files, storage_log, response, bg_tasks>>

vars == <<svcVars, pc, inVars, prepVars, scoreVars, decVars, postVars, outVars, prior,
          docVars>>

\* no earlier call recorded
NoPrior == [known |-> FALSE]

\* an empty documents table, an empty storage directory, no request served
NoDocuments ==
    /\ documents = <<>> /\ files = {} /\ storage_log = <<>>
    /\ response = [status_code |-> 0] /\ bg_tasks = <<>>

n == ZLen(fblocks)

\* the state before any call: nothing computed, nothing returned
FreshCall ==
    /\ fblocks = <<>> /\ V = <<>> /\ sig = <<>>
    /\ i = 0 /\ s_start = <<>> /\ s_cont = <<>>
    /\ prev_idx = None /\ head_idx = None /\ d_prev = [num |-> 0, den |-> 1]
    /\ dp_states = <<>> /\ states = <<>> /\ to_review = <<>> /\ scores = <<>>
    /\ raw_spans = <<>> /\ spans = <<>> /\ merged = <<>> /\ mi = 0 /\ merge_log = <<>>
    /\ outcome = "none" /\ ret_spans = <<>> /\ ret_texts = <<>>
    /\ exc = "none" /\ failed_at = "none"

\* the scoring references kept on the instance from one call to the next
ResetCallKeepsReferences ==
    /\ fblocks' = <<>> /\ V' = <<>> /\ sig' = <<>>
    /\ i' = 0 /\ s_start' = <<>> /\ s_cont' = <<>>
    /\ UNCHANGED <<prev_idx, head_idx>> /\ d_prev' = [num |-> 0, den |-> 1]
    /\ dp_states' = <<>> /\ states' = <<>> /\ to_review' = <<>> /\ scores' = <<>>
    /\ raw_spans' = <<>> /\ spans' = <<>> /\ merged' = <<>> /\ mi' = 0 /\ merge_log' = <<>>
    /\ outcome' = "none" /\ ret_spans' = <<>> /\ ret_texts' = <<>>
    /\ exc' = "none" /\ failed_at' = "none"

\* a call starts from nothing computed and nothing returned
ResetCall ==
    /\ fblocks' = <<>> /\ V' = <<>> /\ sig' = <<>>
    /\ i' = 0 /\ s_start' = <<>> /\ s_cont' = <<>>
    /\ prev_idx' = None /\ head_idx' = None /\ d_prev' = [num |-> 0, den |-> 1]
    /\ dp_states' = <<>> /\ states' = <<>> /\ to_review' = <<>> /\ scores' = <<>>
    /\ raw_spans' = <<>> /\ spans' = <<>> /\ merged' = <<>> /\ mi' = 0 /\ merge_log' = <<>>
    /\ outcome' = "none" /\ ret_spans' = <<>> /\ ret_texts' = <<>>
    /\ exc' = "none" /\ failed_at' = "none"

Init ==
    /\ emb_model = "None"
    /\ cross_encoder = "None"
    /\ encoder = PaletteEncoder
    /\ pc = "idle"
    /\ blocks = <<>> /\ mode = "contract" /\ use_cross_encoder = FALSE
    /\ cfg = ModeCfg("contract")
    /\ FreshCall
    /\ prior = NoPrior /\ NoDocuments

(***************************************************************************)
(* chunk_blocks                                                            *)
(***************************************************************************)
\* the exception caught, and an empty result returned in its place
RaiseSwallowed(e, where) ==
    /\ pc' = "done"
    /\ outcome' = "returned"
    /\ exc' = e
    /\ failed_at' = where
    /\ UNCHANGED <<ret_spans, ret_texts>>

\* an exception leaves the call: nothing is returned
Raise(e, where) ==
    /\ pc' = "done"
    /\ outcome' = "raised"
    /\ exc' = e
    /\ failed_at' = where
    /\ UNCHANGED <<ret_spans, ret_texts>>

\* return {"spans": s, "texts": t}
Return(s, t) ==
    /\ pc' = "done"
    /\ outcome' = "returned"
    /\ ret_spans' = s
    /\ ret_texts' = t
    /\ UNCHANGED <<exc, failed_at>>

\* _ensure_cross_encoder's and _ensure_embedding_model's handler: log, re-raise
Reraise(e) == e

\* a caller enters chunk_blocks(blocks, mode, use_cross_encoder)
ChunkBlocks ==
    /\ pc = "idle"
    /\ \E k \in 0..MaxBlocks, m \in ModeNames, u \in BOOLEAN :
        \E bs \in ListsOf(Palette, k) :
            /\ blocks' = bs
            /\ mode' = m
            /\ use_cross_encoder' = u
            /\ cfg' = ModeCfg(m)
            /\ pc' = IF u THEN "ensure_ce" ELSE "clause_chunk"
    /\ ResetCall
    /\ UNCHANGED svcVars
    /\ UNCHANGED <<prior, docVars>>

\* the call is over and its frame is gone; the service instance stays
CallEnds ==
    /\ pc = "done"
    /\ pc' = "idle"
    /\ blocks' = <<>> /\ mode' = "contract" /\ use_cross_encoder' = FALSE
    /\ cfg' = ModeCfg("contract")
    /\ ResetCall
    /\ UNCHANGED svcVars
    /\ UNCHANGED <<prior, docVars>>

\* if use_cross_encoder: self._ensure_cross_encoder(), the model at hand or loaded
EnsureCrossEncoder ==
    /\ pc = "ensure_ce"
    /\ cross_encoder' = "loaded"
    /\ pc' = "clause_chunk"
    /\ UNCHANGED <<emb_model, encoder, inVars, prepVars, scoreVars, decVars,
                   postVars, outVars>>
    /\ UNCHANGED <<prior, docVars>>

\* self._ensure_cross_encoder() when CrossEncoder(...) raises
EnsureCrossEncoderFails ==
    /\ pc = "ensure_ce"
    /\ cross_encoder = "None"
    /\ \E e \in ExcKinds : Raise(Reraise(e), "ce_load")
    /\ UNCHANGED <<svcVars, inVars, prepVars, scoreVars, decVars, postVars>>
    /\ UNCHANGED <<prior, docVars>>

(***************************************************************************)
(* _clause_chunk: configuration, pre-filter, embedding, signals            *)
(***************************************************************************)
IsBlank(b) == Strip(b.text) = <<>>

\* the indices of the caller's list the pre-filter keeps, in order
KeptIdx(bs) == {k \in DOMAIN bs : ~IsBlank(bs[k])}

\* the k-th (from 0) smallest element of S
Kth(S, k) == CHOOSE x \in S : Cardinality({y \in S : y < x}) = k

\* _blocks = [b for b in blocks if b and (b.text or "").strip()]
Prefiltered(bs) ==
    [k \in 0..(Cardinality(KeptIdx(bs)) - 1) |-> bs[Kth(KeptIdx(bs), k)]]

\* cfg = defaults | cfg; the pre-filter; the empty result for n == 0
Prefilter ==
    /\ pc = "clause_chunk"
    /\ cfg' = MergeCfg(DefaultCfg, cfg)
    /\ fblocks' = Prefiltered(blocks)
    /\ IF ZLen(Prefiltered(blocks)) = 0
       THEN Return(<<>>, <<>>)
       ELSE /\ pc' = "embed"
            /\ UNCHANGED outVars
    /\ UNCHANGED <<svcVars, blocks, mode, use_cross_encoder, V, sig, scoreVars,
                   decVars, postVars>>
    /\ UNCHANGED <<prior, docVars>>

Signals(b) ==
    [enum_like |-> is_enum_like(b.text),
     heading_sh |-> is_heading_shape(b.text),
     ends_soft |-> ends_soft(b.text),
     ends_colon |-> ends_colon(b.text),
     unclosed |-> unclosed_bracket(b.text),
     length |-> Len(Strip(b.text))]

\* V = self.embed_batch(texts, ...): one vector per text, in the order given
Encode(enc, bs) == [k \in DOMAIN bs |-> enc[bs[k].text]]

\* embed_batch and the signal lists; the model is loaded on first use
EmbedBatch ==
    /\ pc = "embed"
    /\ emb_model' = "loaded"
    /\ V' = Encode(encoder, fblocks)
    /\ sig' = [k \in DOMAIN fblocks |-> Signals(fblocks[k])]
    /\ s_start' = [k \in DOMAIN fblocks |-> 0]
    /\ s_cont' = [k \in DOMAIN fblocks |-> 0]
    /\ pc' = "score"
    /\ UNCHANGED <<cross_encoder, encoder, inVars, fblocks, i, prev_idx, head_idx,
                   d_prev, decVars, postVars, outVars>>
    /\ UNCHANGED <<prior, docVars>>

\* SentenceTransformer(model_name) raises in _ensure_embedding_model
EmbedLoadFails ==
    /\ pc = "embed"
    /\ emb_model = "None"
    /\ \E e \in ExcKinds : Raise(Reraise(e), "emb_load")
    /\ UNCHANGED <<svcVars, inVars, prepVars, scoreVars, decVars, postVars>>
    /\ UNCHANGED <<prior, docVars>>

\* self._emb_model.encode(...) raises: nothing in embed_batch catches it
EmbedEncodeFails ==
    /\ pc = "embed"
    /\ emb_model' = "loaded"
    /\ \E e \in ExcKinds : Raise(e, "emb_encode")
    /\ UNCHANGED <<cross_encoder, encoder, inVars, prepVars, scoreVars, decVars,
                   postVars>>
    /\ UNCHANGED <<prior, docVars>>

(***************************************************************************)
(* _clause_chunk: local scoring, one block per step                        *)
(***************************************************************************)
\* cos_idx(a, b) and _post_fix_spans' cos(a, b): the dot product of two unit
\* vectors, 0.0 when an index is None
Cos(v, a, b) ==
    IF a = None \/ b = None THEN 0 ELSE CosTable[Abs(v[a] - v[b]) + 1]

\* _blocks[prev_idx].indent - _blocks[i].indent >= cfg["indent_jump"]
IndentBack(c, bs, p, k) ==
    p # None /\ bs[p].indent - bs[k].indent >= c.indent_jump

IndentForward(c, bs, p, k) ==
    p # None /\ ~IndentBack(c, bs, p, k)
             /\ bs[k].indent - bs[p].indent >= c.indent_jump

\* the structural part without the lead-in of a colon before an enumeration
StartStructureNoLead(c, bs, sg, p, k) ==
    (IF sg[k].enum_like THEN c.w_enum ELSE 0)
    + (IF IndentBack(c, bs, p, k) THEN c.w_indent_back ELSE 0)
    + (IF IndentForward(c, bs, p, k) THEN c.w_indent_forward ELSE 0)
    + (IF sg[k].heading_sh THEN c.w_heading ELSE 0)

\* what the structural signals add to s_start[k]
StartStructure(c, bs, sg, p, k) ==
    (IF sg[k].enum_like THEN c.w_enum ELSE 0)
    + (IF IndentBack(c, bs, p, k) THEN c.w_indent_back ELSE 0)
    + (IF IndentForward(c, bs, p, k) THEN c.w_indent_forward ELSE 0)
    + (IF p # None /\ sg[p].ends_colon /\ sg[k].enum_like THEN c.w_lead ELSE 0)
    + (IF sg[k].heading_sh THEN c.w_heading ELSE 0)

\* w_soft for a soft ending only, an unclosed bracket not counted
ContStructureSoftOnly(c, sg, p) ==
    IF p # None /\ sg[p].ends_soft THEN c.w_soft ELSE 0

\* what the structural signals add to s_cont[k]
ContStructure(c, sg, p) ==
    IF p # None /\ (sg[p].ends_soft \/ sg[p].unclosed) THEN c.w_soft ELSE 0

\* the margin without the similarity to the head
MarginPrevOnly(v, p, h, k) ==
    IF p # None THEN Cos(v, p, k) ELSE 0

\* margin = sp - sh
Margin(v, p, h, k) ==
    (IF p # None THEN Cos(v, p, k) ELSE 0) - (IF h # None THEN Cos(v, h, k) ELSE 0)

SemStart(c, m) == IF m <= c.sem_margin_neg THEN c.w_sem_start ELSE 0

SemCont(c, m) ==
    IF m > c.sem_margin_neg /\ m >= c.sem_margin_pos THEN c.w_sem_cont ELSE 0

ShortBonus(c, sg, k) ==
    IF sg[k].length < c.short_len_bias THEN c.short_len_cont_bonus ELSE 0

RECURSIVE Gcd(_, _)
Gcd(a, b) == IF b = 0 THEN a ELSE Gcd(b, a % b)

\* d = alpha * d_prev + (1 - alpha) * d_raw if use_ema else d_raw, kept exact:
\* alpha is aN / aD, d_prev is num / den, the result is over aD * den
Smoothed(c, dp, d_raw) ==
    LET alpha == c.ema_alpha
        g == Gcd(alpha, 100)
        aN == alpha \div g
        aD == 100 \div g
    IN  IF 0 < alpha /\ alpha <= 100
        THEN [num |-> aN * dp.num + (aD - aN) * d_raw * dp.den, den |-> aD * dp.den]
        ELSE [num |-> d_raw, den |-> 1]

\* the cluster head not moved to a heading-shaped block
NextHeadNoHeading(c, bs, sg, p, h, k, d) ==
    IF k = 0 \/ IndentBack(c, bs, p, k) THEN k
    ELSE IF d.num >= 2 * c.sem_margin_pos * d.den THEN h
    ELSE IF d.num <= 2 * c.sem_margin_neg * d.den THEN k
    ELSE h

\* the cluster head after block k
NextHead(c, bs, sg, p, h, k, d) ==
    IF k = 0 \/ IndentBack(c, bs, p, k) \/ sg[k].heading_sh THEN k
    ELSE IF d.num >= 2 * c.sem_margin_pos * d.den THEN h
    ELSE IF d.num <= 2 * c.sem_margin_neg * d.den THEN k
    ELSE h

StartScoreAt(c, bs, sg, v, p, h, k) ==
    StartStructure(c, bs, sg, p, k) + SemStart(c, Margin(v, p, h, k))

ContScoreAt(c, sg, v, p, h, k) ==
    ContStructure(c, sg, p) + SemCont(c, Margin(v, p, h, k)) + ShortBonus(c, sg, k)

\* one pass of  for i in range(n)
LocalScore ==
    /\ pc = "score"
    /\ i < n
    /\ LET ss == StartScoreAt(cfg, fblocks, sig, V, prev_idx, head_idx, i)
           sc == ContScoreAt(cfg, sig, V, prev_idx, head_idx, i)
           d == Smoothed(cfg, d_prev, ss - sc)
       IN  /\ s_start' = [s_start EXCEPT ![i] = ss]
           /\ s_cont' = [s_cont EXCEPT ![i] = sc]
           /\ head_idx' = NextHead(cfg, fblocks, sig, prev_idx, head_idx, i, d)
           /\ d_prev' = d
    /\ prev_idx' = i
    /\ i' = i + 1
    /\ UNCHANGED <<svcVars, pc, inVars, prepVars, decVars, postVars, outVars>>
    /\ UNCHANGED <<prior, docVars>>

\* s_start = s_start + cfg["bias_start"]; s_start[0] += 10.0
WithPrior(c, ss) ==
    [k \in DOMAIN ss |-> ss[k] + c.bias_start + (IF k = 0 THEN 1000 ELSE 0)]

ApplyPrior ==
    /\ pc = "score"
    /\ i = n
    /\ s_start' = WithPrior(cfg, s_start)
    /\ pc' = "decode"
    /\ UNCHANGED <<svcVars, inVars, prepVars, i, s_cont, prev_idx, head_idx, d_prev,
                   decVars, postVars, outVars>>
    /\ UNCHANGED <<prior, docVars>>

(***************************************************************************)
(* _clause_chunk: the two-state dynamic programme and its back-trace       *)
(***************************************************************************)
\* -1e9, the value of a cell no path reaches
NEG == -1000000000

\* float32 addition to a cell: -1e9 absorbs every score and penalty
FAdd(a, x) == IF a = NEG THEN NEG ELSE a + x

\* dp[0, 1]
DpFirstCont == NEG

\* if cand0 >= cand1: take cand0, back-pointer 0; else cand1, back-pointer 1
Pick(cand0, cand1) ==
    IF cand0 >= cand1 THEN [v |-> cand0, bt |-> START] ELSE [v |-> cand1, bt |-> CONT]

\* the START cell with the penalties of the CONT cell
StartCellWrongPenalty(c, row, ss) ==
    Pick(FAdd(FAdd(row.dp[START], c.pen_SC), ss), FAdd(FAdd(row.dp[CONT], c.pen_CC), ss))

\* the START cell at k from the row before: SS against CS
StartCell(c, row, ss) ==
    Pick(FAdd(FAdd(row.dp[START], c.pen_SS), ss), FAdd(FAdd(row.dp[CONT], c.pen_CS), ss))

\* the CONT cell at k from the row before: SC against CC
ContCell(c, row, sc) ==
    Pick(FAdd(FAdd(row.dp[START], c.pen_SC), sc), FAdd(FAdd(row.dp[CONT], c.pen_CC), sc))

\* rows 0..k of dp and bt, as a function k -> [dp, bt], each indexed by state
RECURSIVE DpRows(_, _, _, _)
DpRows(c, ss, sc, k) ==
    IF k = 0
    THEN (0 :> [dp |-> (START :> ss[0]) @@ (CONT :> DpFirstCont),
                bt |-> (START :> None) @@ (CONT :> None)])
    ELSE LET before == DpRows(c, ss, sc, k - 1)
             s == StartCell(c, before[k - 1], ss[k])
             t == ContCell(c, before[k - 1], sc[k])
         IN  before @@ (k :> [dp |-> (START :> s.v) @@ (CONT :> t.v),
                              bt |-> (START :> s.bt) @@ (CONT :> t.bt)])

\* the final state with the comparison turned round
LastStateFlipped(row) == IF row.dp[START] <= row.dp[CONT] THEN START ELSE CONT

\* cur = 0 if dp[-1, 0] >= dp[-1, 1] else 1
LastState(row) == IF row.dp[START] >= row.dp[CONT] THEN START ELSE CONT

\* the state at k when the state at k + 1 is nxt (cur at the last row)
RECURSIVE TraceBack(_, _, _)
TraceBack(rows, k, cur) ==
    IF k = 0 THEN (0 :> cur)
    ELSE TraceBack(rows, k - 1, rows[k].bt[cur]) @@ (k :> cur)

Decoded(c, ss, sc) ==
    LET last == ZLen(ss) - 1
        rows == DpRows(c, ss, sc, last)
    IN  TraceBack(rows, last, LastState(rows[last]))

Decode ==
    /\ pc = "decode"
    /\ dp_states' = Decoded(cfg, s_start, s_cont)
    /\ states' = Decoded(cfg, s_start, s_cont)
    /\ pc' = "review"
    /\ UNCHANGED <<svcVars, inVars, prepVars, scoreVars, to_review, scores, postVars,
                   outVars>>
    /\ UNCHANGED <<prior, docVars>>

(***************************************************************************)
(* _clause_chunk: the cross-encoder review of low-confidence positions     *)
(***************************************************************************)
\* the scores a cross-encoder gives a pair
CEScores == {0, 50}

\* head_of[k]: the last START at or before k, None when there is none
HeadOf(st, k) ==
    LET S == {j \in 0..k : st[j] = START}
    IN  IF S = {} THEN None ELSE MaxOf(S)

\* head_idx in the second loop: it enters with the first loop's last value
LoopHead(st, k) ==
    IF HeadOf(st, k) # None THEN HeadOf(st, k) ELSE HeadOf(st, ZLen(st) - 1)

\* the confidence test with the comparison turned round
LowConfidenceFlipped(c, dgap) == Abs(dgap) >= c.tie_margin

\* abs(dgap) <= cfg["tie_margin"]
LowConfidence(c, dgap) == Abs(dgap) <= c.tie_margin

\* whether the second loop appends position k
Reviewable(c, ss, sc, st, k) ==
    /\ k - 1 >= 0
    /\ LoopHead(st, k) # None
    /\ LowConfidence(c, ss[k] - sc[k])

\* to_review, in the order of the positions 0..k
RECURSIVE ToReview(_, _, _, _, _)
ToReview(c, ss, sc, st, k) ==
    IF k < 0 THEN <<>>
    ELSE LET before == ToReview(c, ss, sc, st, k - 1)
         IN  IF Reviewable(c, ss, sc, st, k)
             THEN Append(before, [prev_i |-> k - 1, head_i |-> HeadOf(st, k), cur_i |-> k])
             ELSE before

\* pairs[2k] = (prev, cur) and pairs[2k + 1] = (head, cur), by their texts
Pairs(bs, tr) ==
    [q \in 0..(2 * Len(tr) - 1) |->
        LET t == tr[(q \div 2) + 1]
        IN  IF q % 2 = 0 THEN <<bs[t.prev_i].text, bs[t.cur_i].text>>
            ELSE <<bs[t.head_i].text, bs[t.cur_i].text>>]

\* what predict may return: one score per pair, the same pair scored the same
Predictions(pairs) ==
    {f \in [DOMAIN pairs -> CEScores] :
        \A a, b \in DOMAIN pairs : pairs[a] = pairs[b] => f[a] = f[b]}

\* the decision with the two forced labels exchanged
ReviewedLabelExchanged(c, delta, old) ==
    IF delta <= c.ce_delta_start THEN CONT
    ELSE IF delta >= c.ce_delta_cont THEN START
    ELSE old

\* the label of a reviewed position from delta = sp - sh
ReviewedLabel(c, delta, old) ==
    IF delta <= c.ce_delta_start THEN START
    ELSE IF delta >= c.ce_delta_cont THEN CONT
    ELSE old

\* the labels after the first j entries of a review taken in turn: the head
\* of a position is read from the labels already forced; a head that is the
\* previous block makes the two pairs one, any other new head is a pair the
\* batch has not scored, and it takes the high score
RECURSIVE InTurn(_, _, _, _, _)
InTurn(c, st, tr, f, j) ==
    IF j = 0 THEN st
    ELSE LET before == InTurn(c, st, tr, f, j - 1)
             t == tr[j]
             h == HeadOf(before, t.cur_i)
             sp == f[2 * (j - 1)]
             sh == IF h = t.head_i THEN f[2 * (j - 1) + 1]
                   ELSE IF h = t.prev_i THEN sp
                   ELSE 50
         IN  [before EXCEPT ![t.cur_i] = ReviewedLabel(c, sp - sh, before[t.cur_i])]

\* the review taken position by position instead of as one batch
ReviewedInTurn(c, st, tr, f) == InTurn(c, st, tr, f, Len(tr))

\* states after the loop over to_review: a reviewed position by its delta,
\* every other position as it was
Reviewed(c, st, tr, f) ==
    [k \in DOMAIN st |->
        IF \E j \in 1..Len(tr) : tr[j].cur_i = k
        THEN LET j == CHOOSE j \in 1..Len(tr) : tr[j].cur_i = k
             IN  ReviewedLabel(c, f[2 * (j - 1)] - f[2 * (j - 1) + 1], st[k])
        ELSE st[k]]

\* the review run whenever a cross-encoder is loaded, asked for or not
ReviewRunsWhenLoaded(u, ce) == ce = "loaded"

\* if use_cross_encoder and self._cross_encoder
ReviewRuns(u, ce) == u /\ ce = "loaded"

\* the condition is false: the labels stand
CrossEncoderSkip ==
    /\ pc = "review"
    /\ ~ReviewRuns(use_cross_encoder, cross_encoder)
    /\ pc' = "spans"
    /\ UNCHANGED <<svcVars, inVars, prepVars, scoreVars, decVars, postVars, outVars>>
    /\ UNCHANGED <<prior, docVars>>

\* the review: to_review, one predict call over all pairs, the labels forced
CrossEncoderReview ==
    /\ pc = "review"
    /\ ReviewRuns(use_cross_encoder, cross_encoder)
    /\ LET tr == ToReview(cfg, s_start, s_cont, states, n - 1)
       IN  /\ to_review' = tr
           /\ IF tr = <<>>
              THEN /\ pc' = "spans"
                   /\ UNCHANGED <<states, scores, outVars>>
              ELSE IF \E j \in 1..Len(tr) : tr[j].head_i = None
              THEN /\ Raise("TypeError", "none")
                   /\ UNCHANGED <<states, scores>>
              ELSE \E f \in Predictions(Pairs(fblocks, tr)) :
                       /\ scores' = f
                       /\ states' = Reviewed(cfg, states, tr, f)
                       /\ pc' = "spans"
                       /\ UNCHANGED outVars
    /\ UNCHANGED <<svcVars, inVars, prepVars, scoreVars, dp_states, postVars>>
    /\ UNCHANGED <<prior, docVars>>

\* self._cross_encoder.predict(pairs) raises: nothing in _clause_chunk catches it
CrossEncoderPredictFails ==
    /\ pc = "review"
    /\ ReviewRuns(use_cross_encoder, cross_encoder)
    /\ ToReview(cfg, s_start, s_cont, states, n - 1) # <<>>
    /\ \A j \in 1..Len(ToReview(cfg, s_start, s_cont, states, n - 1)) :
           ToReview(cfg, s_start, s_cont, states, n - 1)[j].head_i # None
    /\ to_review' = ToReview(cfg, s_start, s_cont, states, n - 1)
    /\ \E e \in ExcKinds : Raise(e, "ce_predict")
    /\ UNCHANGED <<svcVars, inVars, prepVars, scoreVars, dp_states, states, scores,
                   postVars>>
    /\ UNCHANGED <<prior, docVars>>

(***************************************************************************)
(* _clause_chunk: spans from labels; _post_fix_spans                       *)
(***************************************************************************)
\* cur_span = [0]; a START at k closes it and opens [k]
RECURSIVE SpansFrom(_, _)
SpansFrom(st, k) ==
    IF k = 0 THEN <<<<0>>>>
    ELSE LET before == SpansFrom(st, k - 1)
         IN  IF st[k] = START THEN Append(before, <<k>>)
             ELSE [before EXCEPT ![Len(before)] = Append(@, k)]

BuildSpans ==
    /\ pc = "spans"
    /\ raw_spans' = SpansFrom(states, n - 1)
    /\ pc' = "post_fix"
    /\ UNCHANGED <<svcVars, inVars, prepVars, scoreVars, decVars, spans, merged, mi,
                   merge_log, outVars>>
    /\ UNCHANGED <<prior, docVars>>

\* the heading test applied to spans of three blocks or more only
SplitsHereLongOnly(sg, span) ==
    Len(span) >= 3 /\ sg[span[1]].heading_sh /\ ~sg[span[2]].enum_like

\* the heading test without its look at the second block
SplitsHereAnySecond(sg, span) ==
    Len(span) >= 2 /\ sg[span[1]].heading_sh

\* the heading test of the strong split on one span
SplitsHere(sg, span) ==
    Len(span) >= 2 /\ sg[span[1]].heading_sh /\ ~sg[span[2]].enum_like

\* fixed: [span[0]] and span[1:] for a span that splits, the span otherwise
RECURSIVE HeadingSplit(_, _)
HeadingSplit(sg, sp) ==
    IF sp = <<>> THEN <<>>
    ELSE (IF SplitsHere(sg, Head(sp))
          THEN <<<<Head(sp)[1]>>, Tail(Head(sp))>>
          ELSE <<Head(sp)>>) \o HeadingSplit(sg, Tail(sp))

\* the strong split; the merge sweep runs only over two spans or more
PostFixSplit ==
    /\ pc = "post_fix"
    /\ spans' = HeadingSplit(sig, raw_spans)
    /\ merged' = <<>>
    /\ mi' = 0
    /\ pc' = IF Len(HeadingSplit(sig, raw_spans)) >= 2 THEN "merge" ELSE "return"
    /\ UNCHANGED <<svcVars, inVars, prepVars, scoreVars, decVars, raw_spans, merge_log,
                   outVars>>
    /\ UNCHANGED <<prior, docVars>>

Max2(a, b) == IF a >= b THEN a ELSE b

\* left_sim of the singleton at position k (from 0) of the list: -1.0 without a left
LeftSim(v, sp, k) ==
    IF k - 1 >= 0 THEN Cos(v, sp[k + 1][1], sp[k][1]) ELSE -100

RightSim(v, sp, k) ==
    IF k + 1 < Len(sp) THEN Cos(v, sp[k + 1][1], sp[k + 2][1]) ELSE -100

\* the direction with the comparison turned round
MergeActFlipped(left_sim, right_sim, has_left, has_right) ==
    IF Max2(left_sim, right_sim) >= 60
    THEN IF left_sim <= right_sim /\ has_left THEN "left"
         ELSE IF has_right THEN "right"
         ELSE "drop"
    ELSE "keep"

\* what the sweep does with a singleton: merge left, merge right, keep; "drop"
\* is the branch that merges nowhere and still skips the append
MergeAct(left_sim, right_sim, has_left, has_right) ==
    IF Max2(left_sim, right_sim) >= 60
    THEN IF left_sim >= right_sim /\ has_left THEN "left"
         ELSE IF has_right THEN "right"
         ELSE "drop"
    ELSE "keep"

\* the sweep's decision at position k of the list
ActAt(v, sp, k) ==
    IF Len(sp[k + 1]) = 1
    THEN MergeAct(LeftSim(v, sp, k), RightSim(v, sp, k), k - 1 >= 0, k + 1 < Len(sp))
    ELSE "pass"

\* merged after the decision
MergedAfter(mg, span, act) ==
    IF act = "left" THEN [mg EXCEPT ![Len(mg)] = @ \o span]
    ELSE IF act \in {"keep", "pass"} THEN Append(mg, span)
    ELSE mg

\* the singleton put behind the next entry:  spans[i+1] = spans[i+1] + span
SpansAfterAppended(sp, k, act) ==
    IF act = "right" THEN [sp EXCEPT ![k + 2] = @ \o sp[k + 1]] ELSE sp

\* the list after the decision: spans[i+1] = span + spans[i+1]
SpansAfter(sp, k, act) ==
    IF act = "right" THEN [sp EXCEPT ![k + 2] = sp[k + 1] \o @] ELSE sp

\* one pass of  while i < len(spans)
MergeStep ==
    /\ pc = "merge"
    /\ mi < Len(spans)
    /\ LET act == ActAt(V, spans, mi)
       IN  IF act = "left" /\ merged = <<>>
           THEN /\ Raise("IndexError", "none")
                /\ UNCHANGED postVars
           ELSE /\ merged' = MergedAfter(merged, spans[mi + 1], act)
                /\ spans' = SpansAfter(spans, mi, act)
                /\ mi' = mi + 1
                /\ merge_log' =
                       IF act = "pass" THEN merge_log
                       ELSE Append(merge_log,
                                [blk |-> spans[mi + 1][1],
                                 left_sim |-> LeftSim(V, spans, mi),
                                 right_sim |-> RightSim(V, spans, mi),
                                 act |-> act])
                /\ UNCHANGED <<pc, raw_spans, outVars>>
    /\ UNCHANGED <<svcVars, inVars, prepVars, scoreVars, decVars>>
    /\ UNCHANGED <<prior, docVars>>

\* spans = merged
MergeDone ==
    /\ pc = "merge"
    /\ mi = Len(spans)
    /\ spans' = merged
    /\ pc' = "return"
    /\ UNCHANGED <<svcVars, inVars, prepVars, scoreVars, decVars, raw_spans, merged, mi,
                   merge_log, outVars>>
    /\ UNCHANGED <<prior, docVars>>

\* "\n".join(texts)
RECURSIVE JoinNL(_)
JoinNL(ts) ==
    IF ts = <<>> THEN <<>>
    ELSE IF Len(ts) = 1 THEN ts[1]
    ELSE ts[1] \o <<"\n">> \o JoinNL(Tail(ts))

\* texts_out: per span, the joined texts of _blocks at the span's indices
TextsOut(bs, sp) ==
    [k \in 1..Len(sp) |-> JoinNL([j \in 1..Len(sp[k]) |-> bs[sp[k][j]].text])]

ReturnSpans ==
    /\ pc = "return"
    /\ Return(spans, TextsOut(fblocks, spans))
    /\ UNCHANGED <<svcVars, inVars, prepVars, scoreVars, decVars, postVars>>
    /\ UNCHANGED <<prior, docVars>>

(***************************************************************************)
(* Specification: calls of chunk_blocks, one after another                 *)
(***************************************************************************)
Next ==
    \/ ChunkBlocks
    \/ EnsureCrossEncoder
    \/ EnsureCrossEncoderFails
    \/ Prefilter
    \/ EmbedBatch
    \/ EmbedLoadFails
    \/ EmbedEncodeFails
    \/ LocalScore
    \/ ApplyPrior
    \/ Decode
    \/ CrossEncoderSkip
    \/ CrossEncoderReview
    \/ CrossEncoderPredictFails
    \/ BuildSpans
    \/ PostFixSplit
    \/ MergeStep
    \/ MergeDone
    \/ ReturnSpans
    \/ CallEnds

Spec == Init /\ [][Next]_vars

(***************************************************************************)
(* Specification: the decoder alone, over arbitrary score arrays           *)
(***************************************************************************)
\* the scores the decoder is tried on
ScoreVals == {-80, -5, 0, 40, 190}

InitDP ==
    /\ emb_model = "loaded"
    /\ cross_encoder = "None"
    /\ encoder = PaletteEncoder
    /\ pc = "decode"
    /\ blocks = <<>> /\ use_cross_encoder = FALSE
    /\ mode \in DOMAIN config_map
    /\ cfg = EffectiveCfg(mode)
    /\ \E k \in 1..MaxBlocks :
        /\ fblocks = [j \in 0..(k - 1) |-> [text |-> TxtPlainA, indent |-> 0]]
        /\ s_start \in ListsOf(ScoreVals, k)
        /\ s_cont \in ListsOf(ScoreVals, k)
    /\ V = <<>> /\ sig = <<>>
    /\ i = n
    /\ prev_idx = None /\ head_idx = None /\ d_prev = [num |-> 0, den |-> 1]
    /\ dp_states = <<>> /\ states = <<>> /\ to_review = <<>> /\ scores = <<>>
    /\ raw_spans = <<>> /\ spans = <<>> /\ merged = <<>> /\ mi = 0 /\ merge_log = <<>>
    /\ outcome = "none" /\ ret_spans = <<>> /\ ret_texts = <<>>
    /\ exc = "none" /\ failed_at = "none"
    /\ prior = NoPrior /\ NoDocuments

NextDP == Decode

SpecDP == InitDP /\ [][NextDP]_vars

(***************************************************************************)
(* Specification: the five-block example, under every embedding model      *)
(***************************************************************************)
ExampleBlocks ==
    (0 :> [text |-> ExText0, indent |-> 0]) @@ (1 :> [text |-> ExText1, indent |-> 0])
    @@ (2 :> [text |-> ExText2, indent |-> 0]) @@ (3 :> [text |-> ExText3, indent |-> 0])
    @@ (4 :> [text |-> ExText4, indent |-> 0])

InitExample ==
    /\ emb_model = "None"
    /\ cross_encoder = "None"
    /\ encoder \in [{ExText0, ExText1, ExText2, ExText3, ExText4} -> Angles]
    /\ pc = "clause_chunk"
    /\ blocks = ExampleBlocks /\ mode = "contract" /\ use_cross_encoder = FALSE
    /\ cfg = ModeCfg("contract")
    /\ FreshCall
    /\ prior = NoPrior /\ NoDocuments

NextExample ==
    \/ Prefilter
    \/ EmbedBatch
    \/ EmbedLoadFails
    \/ EmbedEncodeFails
    \/ LocalScore
    \/ ApplyPrior
    \/ Decode
    \/ CrossEncoderSkip
    \/ BuildSpans
    \/ PostFixSplit
    \/ MergeStep
    \/ MergeDone
    \/ ReturnSpans

SpecExample == InitExample /\ [][NextExample]_vars

(***************************************************************************)
(* Specification: one call, and the same call again on the same instance   *)
(***************************************************************************)
\* the blocks the repeated calls are made of
RepeatTexts == {TxtBlank, TxtPlainA, TxtEnum, TxtSoft, TxtOpen, TxtItem}

RepeatPalette == {b \in Palette : b.text \in RepeatTexts}

InitRepeat ==
    /\ emb_model = "None"
    /\ cross_encoder = "None"
    /\ encoder = PaletteEncoder
    /\ \E k \in 0..MaxBlocks : blocks \in ListsOf(RepeatPalette, k)
    /\ mode \in ModeNames
    /\ use_cross_encoder \in BOOLEAN
    /\ cfg = ModeCfg(mode)
    /\ pc = IF use_cross_encoder THEN "ensure_ce" ELSE "clause_chunk"
    /\ FreshCall
    /\ prior = NoPrior /\ NoDocuments

\* what the call that just ended gave its caller
Remembered ==
    [known |-> TRUE, outcome |-> outcome, spans |-> ret_spans, texts |-> ret_texts,
     scores |-> scores]

\* the caller enters chunk_blocks again with the same arguments
CallAgain ==
    /\ pc = "done"
    /\ ~prior.known
    /\ prior' = Remembered
    /\ cfg' = ModeCfg(mode)
    /\ pc' = IF use_cross_encoder THEN "ensure_ce" ELSE "clause_chunk"
    /\ ResetCall
    /\ UNCHANGED <<svcVars, blocks, mode, use_cross_encoder, docVars>>

\* the steps of one call, from chunk_blocks' first statement to its return
CallSteps ==
    \/ EnsureCrossEncoder
    \/ EnsureCrossEncoderFails
    \/ Prefilter
    \/ EmbedBatch
    \/ EmbedLoadFails
    \/ EmbedEncodeFails
    \/ LocalScore
    \/ ApplyPrior
    \/ Decode
    \/ CrossEncoderSkip
    \/ CrossEncoderReview
    \/ CrossEncoderPredictFails
    \/ BuildSpans
    \/ PostFixSplit
    \/ MergeStep
    \/ MergeDone
    \/ ReturnSpans

NextRepeat == CallSteps \/ CallAgain

SpecRepeat == InitRepeat /\ [][NextRepeat]_vars

(***************************************************************************)
(* Specification: a call with a mode that is no key of config_map, then    *)
(* the same call with mode = "contract"                                    *)
(***************************************************************************)
\* mode names that are no key of config_map; the lookup is case-sensitive
UnknownModes == {"legal", "CONTRACT", ""}

InitMode ==
    /\ emb_model = "None"
    /\ cross_encoder = "None"
    /\ encoder = PaletteEncoder
    /\ \E k \in 0..MaxBlocks : blocks \in ListsOf(RepeatPalette, k)
    /\ mode \in UnknownModes
    /\ use_cross_encoder \in BOOLEAN
    /\ cfg = ModeCfg(mode)
    /\ pc = IF use_cross_encoder THEN "ensure_ce" ELSE "clause_chunk"
    /\ FreshCall
    /\ prior = NoPrior /\ NoDocuments

\* the caller enters chunk_blocks again, the mode now "contract"
CallAgainAsContract ==
    /\ pc = "done"
    /\ ~prior.known
    /\ prior' = Remembered
    /\ mode' = "contract"
    /\ cfg' = ModeCfg("contract")
    /\ pc' = IF use_cross_encoder THEN "ensure_ce" ELSE "clause_chunk"
    /\ ResetCall
    /\ UNCHANGED <<svcVars, blocks, use_cross_encoder, docVars>>

NextMode == CallSteps \/ CallAgainAsContract

SpecMode == InitMode /\ [][NextMode]_vars

(***************************************************************************)
(* Specification: a call alone, and the same call on the shared instance   *)
(* clause_chunking_service while other calls run on it                     *)
(***************************************************************************)
ModelStates == {"None", "loaded"}

\* the call made again, on the instance as other calls have left it
CallAmongOthers ==
    /\ pc = "done"
    /\ ~prior.known
    /\ prior' = Remembered
    /\ emb_model' \in ModelStates
    /\ cross_encoder' \in ModelStates
    /\ cfg' = ModeCfg(mode)
    /\ pc' = IF use_cross_encoder THEN "ensure_ce" ELSE "clause_chunk"
    /\ ResetCall
    /\ UNCHANGED <<encoder, blocks, mode, use_cross_encoder, docVars>>

\* another call's _ensure_embedding_model assigns self._emb_model
OtherCallLoadsEmbedding ==
    /\ prior.known /\ pc # "done"
    /\ emb_model = "None"
    /\ emb_model' = "loaded"
    /\ UNCHANGED <<cross_encoder, encoder, pc, inVars, prepVars, scoreVars, decVars,
                   postVars, outVars, prior, docVars>>

\* another call's _ensure_cross_encoder assigns self._cross_encoder
OtherCallLoadsCrossEncoder ==
    /\ prior.known /\ pc # "done"
    /\ cross_encoder = "None"
    /\ cross_encoder' = "loaded"
    /\ UNCHANGED <<emb_model, encoder, pc, inVars, prepVars, scoreVars, decVars,
                   postVars, outVars, prior, docVars>>

NextConcurrent ==
    \/ CallSteps
    \/ CallAmongOthers
    \/ OtherCallLoadsEmbedding
    \/ OtherCallLoadsCrossEncoder

SpecConcurrent == InitRepeat /\ [][NextConcurrent]_vars

(***************************************************************************)
(* Specification: unclosed_bracket over short texts of brackets            *)
(***************************************************************************)
\* 'including (a) the Buyer'
TxtBracketPair ==
    <<"i", "n", "c", "l", "u", "d", "i", "n", "g", " ", "(", "a", ")", " ",
      "t", "h", "e", " ", "B", "u", "y", "e", "r">>

\* 'including (a) the Buyer (defined above)'
TxtBracketPairs ==
    <<"i", "n", "c", "l", "u", "d", "i", "n", "g", " ", "(", "a", ")", " ",
      "t", "h", "e", " ", "B", "u", "y", "e", "r", " ", "(", "d", "e", "f",
      "i", "n", "e", "d", " ", "a", "b", "o", "v", "e", ")">>

\* 'including (a the Buyer'
TxtBracketOpen ==
    <<"i", "n", "c", "l", "u", "d", "i", "n", "g", " ", "(", "a", " ", "t",
      "h", "e", " ", "B", "u", "y", "e", "r">>

\* the longest text made of the bracket alphabet
MaxBracketLen == 3

BracketAlphabet == {"(", ")", "[", "U+3011", "a"}

BracketTexts ==
    {TxtBracketPair, TxtBracketPairs, TxtBracketOpen}
        \cup UNION {[1..k -> BracketAlphabet] : k \in 1..MaxBracketLen}

InitBracket ==
    /\ emb_model = "None"
    /\ cross_encoder = "None"
    /\ encoder = [t \in BracketTexts |-> 0]
    /\ pc = "clause_chunk"
    /\ \E t \in BracketTexts : blocks = (0 :> [text |-> t, indent |-> 0])
    /\ mode = "contract" /\ use_cross_encoder = FALSE
    /\ cfg = ModeCfg("contract")
    /\ FreshCall
    /\ prior = NoPrior /\ NoDocuments

NextBracket == Prefilter \/ EmbedBatch

SpecBracket == InitBracket /\ [][NextBracket]_vars

(***************************************************************************)
(* Documents: upload, status update, deletion and the parse request       *)
(***************************************************************************)
\* the most rows the documents table holds
MaxDocs == 2

Contents == {"bytes1", "bytes2"}

FileNames == {"a.pdf", "b.PDF", "notes"}

\* hashlib.sha256 of the content: distinct contents, distinct digests
Checksum(content) == IF content = "bytes1" THEN "sha1" ELSE "sha2"

\* os.path.splitext(file_name)[1]
splitext(file_name) ==
    IF file_name = "a.pdf" THEN ".pdf"
    ELSE IF file_name = "b.PDF" THEN ".PDF"
    ELSE ""

lower(ext) == IF ext = ".PDF" THEN ".pdf" ELSE ext

file_type_map(ext) == IF ext = ".pdf" THEN "pdf" ELSE "unknown"

\* documents/<checksum[:2]>/<checksum><ext>
generate_file_path(file_name, checksum) == <<checksum, splitext(file_name)>>

DocIds == 1..MaxDocs

StatusArgs == {"uploaded", "parsed"}

ParseStatusArgs == {"None", "processing", "completed"}

chunkVars ==
    <<svcVars, pc, inVars, prepVars, scoreVars, decVars, postVars, outVars,
      prior>>

\* the file written under its content-addressed path
save_file(fs, file_name, content) ==
    fs \cup {generate_file_path(file_name, Checksum(content))}

\* os.remove of the path when it exists
delete_file(fs, file_ref) == fs \ {file_ref.file_path}

FileRef(file_name, content) ==
    [file_name |-> file_name, checksum |-> Checksum(content),
     file_path |-> generate_file_path(file_name, Checksum(content))]

\* the ids of the rows with this checksum that are not deleted
get_by_checksum(docs, checksum) ==
    {d \in 1..Len(docs) : docs[d].checksum = checksum /\ ~docs[d].deleted}

\* crud get: the row of that id unless deleted or absent
Found(docs, id) == id \in 1..Len(docs) /\ ~docs[id].deleted

\* the row crud create inserts, the column defaults filled in
NewRow(file_name, content) ==
    [name |-> file_name,
     file_type |-> file_type_map(lower(splitext(file_name))),
     checksum |-> Checksum(content),
     file_ref |-> FileRef(file_name, content),
     status |-> "uploaded", parse_status |-> "pending",
     deleted |-> FALSE]

UploadDuplicate(file_name, content, existing) ==
    /\ files' = delete_file(save_file(files, file_name, content),
                            FileRef(file_name, content))
    /\ storage_log' = <<[op |-> "save_file",
                         path |-> FileRef(file_name, content).file_path],
                        [op |-> "delete_file",
                         path |-> FileRef(file_name, content).file_path]>>
    /\ response' = [request |-> "upload", status_code |-> 200,
                    document_id |-> existing,
                    name |-> documents[existing].name,
                    file_type |-> documents[existing].file_type,
                    status |-> documents[existing].status,
                    message |-> "Document already exists",
                    duplicate |-> TRUE]
    /\ UNCHANGED documents

\* the duplicate branch never taken
UploadAlwaysCreates(file_name, content) ==
    /\ Len(documents) < MaxDocs
    /\ files' = save_file(files, file_name, content)
    /\ storage_log' = <<[op |-> "save_file",
                         path |-> FileRef(file_name, content).file_path]>>
    /\ documents' = Append(documents, NewRow(file_name, content))
    /\ response' = [request |-> "upload", status_code |-> 200,
                    document_id |-> Len(documents) + 1,
                    name |-> file_name,
                    file_type |-> NewRow(file_name, content).file_type,
                    status |-> NewRow(file_name, content).status,
                    message |-> "Document uploaded successfully",
                    duplicate |-> FALSE]

UploadCreates(file_name, content) ==
    /\ get_by_checksum(documents, Checksum(content)) = {}
    /\ Len(documents) < MaxDocs
    /\ files' = save_file(files, file_name, content)
    /\ storage_log' = <<[op |-> "save_file",
                         path |-> FileRef(file_name, content).file_path]>>
    /\ documents' = Append(documents, NewRow(file_name, content))
    /\ response' = [request |-> "upload", status_code |-> 200,
                    document_id |-> Len(documents) + 1,
                    name |-> file_name,
                    file_type |-> NewRow(file_name, content).file_type,
                    status |-> NewRow(file_name, content).status,
                    message |-> "Document uploaded successfully",
                    duplicate |-> FALSE]

UploadDocument ==
    \E file_name \in FileNames, content \in Contents :
        /\ \/ \E existing \in get_by_checksum(documents, Checksum(content)) :
                UploadDuplicate(file_name, content, existing)
           \/ UploadCreates(file_name, content)
        /\ UNCHANGED <<bg_tasks, chunkVars>>

\* crud update_status through the PUT endpoint
SetStatus(row, status, parse_status) ==
    [row EXCEPT !.status = status,
                !.parse_status = IF parse_status # "None" THEN parse_status
                                 ELSE @]

UpdateDocumentStatus ==
    \E id \in DocIds, status \in StatusArgs, parse_status \in ParseStatusArgs :
        /\ IF Found(documents, id)
           THEN /\ documents' = [documents EXCEPT
                                   ![id] = SetStatus(@, status, parse_status)]
                /\ response' = [request |-> "status", status_code |-> 200,
                                document_id |-> id]
           ELSE /\ response' = [request |-> "status", status_code |-> 404,
                                document_id |-> id]
                /\ UNCHANGED documents
        /\ storage_log' = <<>>
        /\ UNCHANGED <<files, bg_tasks, chunkVars>>

DeleteDocument ==
    \E id \in DocIds :
        /\ IF Found(documents, id)
           THEN /\ files' = delete_file(files, documents[id].file_ref)
                /\ storage_log' = <<[op |-> "delete_file",
                                     path |-> documents[id].file_ref.file_path]>>
                /\ documents' = [documents EXCEPT ![id].deleted = TRUE]
                /\ response' = [request |-> "delete", status_code |-> 200,
                                document_id |-> id]
           ELSE /\ response' = [request |-> "delete", status_code |-> 404,
                                document_id |-> id]
                /\ storage_log' = <<>>
                /\ UNCHANGED <<documents, files>>
        /\ UNCHANGED <<bg_tasks, chunkVars>>

\* the parse request without its check of a parse in progress
ParseAnswerUnchecked(docs, id) ==
    IF ~Found(docs, id) THEN 404 ELSE 500

\* 404 for an unknown document, 400 for one being parsed; otherwise the call
\* of update_document_status lacks its required argument 'status' and the
\* request ends in an unhandled TypeError before anything is scheduled
ParseAnswer(docs, id) ==
    IF ~Found(docs, id) THEN 404
    ELSE IF docs[id].parse_status = "processing" THEN 400
    ELSE 500

ParseDocument ==
    \E id \in DocIds :
        /\ response' = [request |-> "parse",
                        status_code |-> ParseAnswer(documents, id),
                        document_id |-> id]
        /\ storage_log' = <<>>
        /\ UNCHANGED <<documents, files, bg_tasks, chunkVars>>

\* the bytes under the path, named by their digest; FileNotFoundError when
\* the path does not exist
get_file(fs, file_ref) ==
    IF file_ref.file_path \in fs THEN file_ref.file_path[1] ELSE "FileNotFoundError"

\* None for no such document and for any error of get_file
get_file_content(docs, fs, id) ==
    IF ~Found(docs, id) THEN "None"
    ELSE IF get_file(fs, docs[id].file_ref) = "FileNotFoundError" THEN "None"
    ELSE get_file(fs, docs[id].file_ref)

NextDocuments ==
    \/ UploadDocument
    \/ UpdateDocumentStatus
    \/ DeleteDocument
    \/ ParseDocument

SpecDocuments == Init /\ [][NextDocuments]_vars

(***************************************************************************)
(* Specification: calls of four blocks, without the cross-encoder          *)
(***************************************************************************)
\* the number of blocks of these calls
FourBlocks == 4

FourTexts == {TxtCaps, TxtItem, TxtHead, TxtOpen, TxtEnum, TxtSoft}

FourPalette == {b \in Palette : b.text \in FourTexts}

InitFour ==
    /\ emb_model = "None"
    /\ cross_encoder = "None"
    /\ encoder = PaletteEncoder
    /\ blocks \in ListsOf(FourPalette, FourBlocks)
    /\ mode \in ModeNames
    /\ use_cross_encoder = FALSE
    /\ cfg = ModeCfg(mode)
    /\ pc = "clause_chunk"
    /\ FreshCall
    /\ prior = NoPrior /\ NoDocuments

NextFour ==
    \/ Prefilter
    \/ EmbedBatch
    \/ EmbedLoadFails
    \/ EmbedEncodeFails
    \/ LocalScore
    \/ ApplyPrior
    \/ Decode
    \/ CrossEncoderSkip
    \/ BuildSpans
    \/ PostFixSplit
    \/ MergeStep
    \/ MergeDone
    \/ ReturnSpans

SpecFour == InitFour /\ [][NextFour]_vars

(***************************************************************************)
(* Specification: calls with four blocks and the cross-encoder review      *)
(***************************************************************************)
\* chunk_blocks(blocks, mode, use_cross_encoder=True) on a service whose
\* cross-encoder is loaded, at the entry of _clause_chunk
InitReview ==
    /\ emb_model = "None"
    /\ cross_encoder = "loaded"
    /\ encoder = PaletteEncoder
    /\ blocks \in ListsOf(FourPalette, FourBlocks)
    /\ mode \in ModeNames
    /\ use_cross_encoder = TRUE
    /\ cfg = ModeCfg(mode)
    /\ pc = "clause_chunk"
    /\ FreshCall
    /\ prior = NoPrior /\ NoDocuments

NextReview ==
    \/ Prefilter
    \/ EmbedBatch
    \/ LocalScore
    \/ ApplyPrior
    \/ Decode
    \/ CrossEncoderReview
    \/ BuildSpans
    \/ PostFixSplit
    \/ MergeStep
    \/ MergeDone
    \/ ReturnSpans

SpecReview == InitReview /\ [][NextReview]_vars

(***************************************************************************)
(* Properties                                                              *)
(***************************************************************************)
RECURSIVE Flatten(_)
Flatten(sp) == IF sp = <<>> THEN <<>> ELSE Head(sp) \o Flatten(Tail(sp))

Returned == outcome = "returned"

Labelled == dp_states # <<>>

\* a merge-log entry of the given kind
Logged(act) == \E e \in 1..Len(merge_log) : merge_log[e].act = act

\* C1: the spans a call returns cover 0..n-1, every index once, in increasing
\* order within and across spans, and no span is empty (n: the blocks scored).
C1_Partition ==
    Returned =>
        /\ \A k \in 1..Len(ret_spans) : ret_spans[k] # <<>>
        /\ Flatten(ret_spans) = [k \in 1..n |-> k - 1]

\* C1 witness: a returned call of three blocks in which the review changed a
\* label and the sweep merged a singleton.
C1_Witness ==
    /\ Returned /\ n = 3
    /\ states # dp_states
    /\ Logged("left") \/ Logged("right")

\* C2: block 0 is START after the back-trace and after the review, and the
\* first returned span begins at index 0.
C2_FirstBlockStart ==
    /\ Labelled => dp_states[0] = START /\ states[0] = START
    /\ Returned /\ ret_spans # <<>> => ret_spans[1][1] = 0

\* C2 witness: a returned call whose review ran over a non-empty to_review.
C2_Witness ==
    /\ Returned /\ use_cross_encoder /\ to_review # <<>>
    /\ states[0] = START /\ ret_spans[1][1] = 0

\* the transition penalty between two consecutive labels
Pen(c, a, b) ==
    IF a = START THEN (IF b = START THEN c.pen_SS ELSE c.pen_SC)
    ELSE (IF b = START THEN c.pen_CS ELSE c.pen_CC)

RECURSIVE TotalScore(_, _, _, _, _)
TotalScore(c, ss, sc, lab, k) ==
    (IF lab[k] = START THEN ss[k] ELSE sc[k])
    + (IF k = 0 THEN 0 ELSE Pen(c, lab[k - 1], lab[k]) + TotalScore(c, ss, sc, lab, k - 1))

LabelSeqs(k) == {lab \in [0..(k - 1) -> {START, CONT}] : lab[0] = START}

\* C3: the decoder's labels start with START and reach the maximum total score
\* (chosen-state scores plus transition penalties) over all label sequences
\* that start with START.
C3_DPOptimal ==
    Labelled =>
        /\ dp_states[0] = START
        /\ \A lab \in LabelSeqs(n) :
               TotalScore(cfg, s_start, s_cont, dp_states, n - 1)
                   >= TotalScore(cfg, s_start, s_cont, lab, n - 1)

\* C3 witness: three blocks, and a block labelled CONT although its own start
\* score is the larger one: the optimum is not the per-block choice.
C3_Witness ==
    /\ Labelled /\ n = 3
    /\ \E k \in 1..2 : s_start[k] > s_cont[k] /\ dp_states[k] = CONT

\* C4: the review never changes label 0, and changes a label only where
\* |s_start - s_cont| <= tie_margin.
C4_TieBreakScope ==
    Labelled =>
        \A k \in DOMAIN states :
            states[k] # dp_states[k] =>
                k # 0 /\ Abs(s_start[k] - s_cont[k]) <= cfg.tie_margin

\* C4 witness: the review changed a label.
C4_Witness == Labelled /\ \E k \in DOMAIN states : states[k] # dp_states[k]

\* C5: every index of a returned span is the index of that block in the caller's
\* list, each text joins the caller's blocks at those indices, and texts[k]
\* belongs to spans[k].
C5_OriginalIndices ==
    Returned =>
        /\ Len(ret_texts) = Len(ret_spans)
        /\ \A k \in 1..Len(ret_spans) :
            /\ \A j \in 1..Len(ret_spans[k]) :
                   Kth(KeptIdx(blocks), ret_spans[k][j]) = ret_spans[k][j]
            /\ ret_texts[k] =
                   JoinNL([j \in 1..Len(ret_spans[k]) |-> blocks[ret_spans[k][j]].text])

\* C6: no call that asked for the cross-encoder ends in an error because the
\* cross-encoder could not be loaded or its predict call failed.
C6_RerankerFailureRecovered ==
    pc = "done" /\ failed_at \in {"ce_load", "ce_predict"} => Returned

\* C7 as claimed: an embedding failure reaches the caller as the distinct error
\* kind "EmbeddingUnavailable", and nothing is returned.
C7_DistinctErrorKind ==
    failed_at \in {"emb_load", "emb_encode"} =>
        /\ outcome = "raised" /\ exc = "EmbeddingUnavailable"
        /\ ret_spans = <<>> /\ ret_texts = <<>>

\* C7 amended: an embedding failure ends the call in the exception the model
\* load or the encode call raised, unchanged, and nothing is returned.
C7_EmbeddingFailurePropagates ==
    failed_at \in {"emb_load", "emb_encode"} =>
        /\ pc = "done" /\ outcome = "raised" /\ exc \in ExcKinds
        /\ ret_spans = <<>> /\ ret_texts = <<>>
        /\ raw_spans = <<>> /\ dp_states = <<>>

\* C7 witness: a call of three blocks that ended in the encode call's exception.
C7_Witness ==
    /\ failed_at = "emb_encode" /\ outcome = "raised" /\ n = 3

\* C8: a call whose blocks are all blank, or that has none, returns empty spans
\* and texts, whatever the mode, use_cross_encoder and the models' state.
C8_EmptyInputReturnsEmpty ==
    pc = "done" /\ KeptIdx(blocks) = {} =>
        Returned /\ ret_spans = <<>> /\ ret_texts = <<>>

ExpectedSpans == <<<<0>>, <<1, 2>>, <<3, 4>>>>

\* blocks 0 and 3 are dissimilar to blocks 1, 2 and 4
ExDissimilar == \A a \in {0, 3}, b \in {1, 2, 4} : Cos(V, a, b) <= 0

\* C9 as claimed: with blocks 0 and 3 dissimilar to the others, the example
\* returns [[0],[1,2],[3,4]].
C9_Example == Returned /\ ExDissimilar => ret_spans = ExpectedSpans

\* C9 amended: it does when also blocks 1 and 2 have cosine >= 0.60 and
\* cos(3,4) - cos(2,4) > -0.06 (block 4 gets no semantic start bonus).
C9_ExampleAmended ==
    Returned /\ ExDissimilar /\ Cos(V, 1, 2) >= 60
             /\ Cos(V, 3, 4) - Cos(V, 2, 4) > cfg.sem_margin_neg
        => ret_spans = ExpectedSpans

C9_Witness ==
    /\ Returned /\ ExDissimilar /\ Cos(V, 1, 2) >= 60
    /\ Cos(V, 3, 4) - Cos(V, 2, 4) > cfg.sem_margin_neg
    /\ ret_spans = ExpectedSpans
    /\ Logged("right")

\* C10: a step of the sweep at a singleton [x], with left and right the cosines
\* of x to the first block of the list's entries before and after it: when the
\* larger is >= 0.60, x is appended to the end of the last merged span if left
\* >= right, and put in front of the next entry if right > left; when both are
\* below 0.60, [x] is appended as a span of its own.
C10_MergeDirection ==
    [][(pc = "merge" /\ mi < Len(spans) /\ mi' = mi + 1 /\ Len(spans[mi + 1]) = 1) =>
        LET x == spans[mi + 1][1]
            hasL == mi >= 1
            hasR == mi + 1 < Len(spans)
            L == IF hasL THEN Cos(V, x, spans[mi][1]) ELSE -100
            R == IF hasR THEN Cos(V, x, spans[mi + 2][1]) ELSE -100
        IN  /\ (Max2(L, R) >= 60 /\ hasL /\ L >= R) =>
                /\ merged' = [merged EXCEPT ![Len(merged)] = Append(@, x)]
                /\ spans' = spans
            /\ (Max2(L, R) >= 60 /\ hasR /\ R > L) =>
                /\ spans' = [spans EXCEPT ![mi + 2] = <<x>> \o @]
                /\ merged' = merged
            /\ (L < 60 /\ R < 60) =>
                /\ merged' = Append(merged, <<x>>)
                /\ spans' = spans]_vars

\* C10 witness: one sweep merged a singleton left and another right.
C10_Witness ==
    /\ Returned
    /\ \E e \in 1..Len(merge_log) :
           /\ merge_log[e].act = "left"
           /\ merge_log[e].left_sim >= 60
           /\ merge_log[e].left_sim >= merge_log[e].right_sim
    /\ \E e \in 1..Len(merge_log) :
           /\ merge_log[e].act = "right"
           /\ merge_log[e].right_sim > merge_log[e].left_sim

\* both calls returned, and the second was given the scores the first was given
SameCallTwice ==
    /\ pc = "done" /\ prior.known
    /\ Returned /\ prior.outcome = "returned"
    /\ scores = prior.scores

SameCallAmongOthers ==
    /\ pc = "done" /\ prior.known
    /\ Returned /\ prior.outcome = "returned"
    /\ use_cross_encoder => scores = prior.scores

\* C12: a call that runs while other calls load the instance's models at any
\* of its steps returns the spans and texts it returns when run alone.
C12_InterferenceFree ==
    SameCallAmongOthers => ret_spans = prior.spans /\ ret_texts = prior.texts

\* C12 witness: a call without review returned two spans or more although
\* another call had loaded the cross-encoder.
C12_Witness ==
    /\ SameCallAmongOthers
    /\ ~use_cross_encoder /\ cross_encoder = "loaded"
    /\ Len(ret_spans) >= 2

\* the call is in _clause_chunk past the pre-filter: embedding, scoring, decoding,
\* review or post-processing
Scoring == pc \notin {"idle", "ensure_ce", "clause_chunk", "done"}

\* the weights _clause_chunk reads
RequiredWeights == DOMAIN DefaultCfg

\* C13 as claimed: no call embeds, scores or decodes with a profile that did
\* not supply every required weight.
C13_MissingWeightRejected == Scoring => RequiredWeights \subseteq DOMAIN ModeCfg(mode)

\* C13 amended: a profile that lacks weights is not rejected; whenever a call
\* embeds, scores or decodes, cfg holds every required weight, the profile's
\* where it supplies one and the built-in default where it does not.
C13_DefaultsFillProfile ==
    Scoring =>
        /\ DOMAIN cfg = RequiredWeights
        /\ \A w \in RequiredWeights :
               cfg[w] = IF w \in DOMAIN ModeCfg(mode) THEN ModeCfg(mode)[w]
                        ELSE DefaultCfg[w]

\* C13 witness: a call with an unknown mode name decodes with w_lead, which
\* no profile supplies, at its default.
C13_Witness ==
    /\ pc = "decode" /\ mode = "legal"
    /\ "w_lead" \notin DOMAIN ModeCfg(mode)
    /\ cfg.w_lead = DefaultCfg.w_lead

\* the signals of the block are computed
SignalsKnown == sig # <<>>

\* more opening than closing brackets among the characters of s
MoreOpeners(s) ==
    Cardinality({p \in 1..Len(s) : s[p] \in Openers})
        > Cardinality({p \in 1..Len(s) : s[p] \in Closers})

\* C14 as claimed: the unclosed signal says whether the counter ends positive;
\* it is true for 'including (a) the Buyer' and false for 'including (a) the
\* Buyer (defined above)'.
C14_BracketExamples ==
    SignalsKnown =>
        /\ sig[0].unclosed = MoreOpeners(fblocks[0].text)
        /\ fblocks[0].text = TxtBracketPair => sig[0].unclosed
        /\ fblocks[0].text = TxtBracketPairs => ~sig[0].unclosed

\* C14 amended: the unclosed signal says whether the counter ends positive; it
\* is false for both texts, whose brackets are balanced, and true for
\* 'including (a the Buyer'.
C14_BracketBalance ==
    SignalsKnown =>
        /\ sig[0].unclosed = MoreOpeners(fblocks[0].text)
        /\ fblocks[0].text = TxtBracketPair => ~sig[0].unclosed
        /\ fblocks[0].text = TxtBracketPairs => ~sig[0].unclosed
        /\ fblocks[0].text = TxtBracketOpen => sig[0].unclosed

\* C14 witness: the signals of 'including (a) the Buyer', with unclosed false.
C14_Witness ==
    /\ SignalsKnown
    /\ fblocks[0].text = TxtBracketPair
    /\ ~sig[0].unclosed

\* the last document request served was of this kind
Answered(request) == "request" \in DOMAIN response /\ response.request = request

\* the storage calls of the given kind logged for the request
Calls(log, op) == {e \in 1..Len(log) : log[e].op = op}

C17_ParseRejected ==
    [][ParseDocument =>
        LET id == response'.document_id
        IN  /\ ~Found(documents, id) => response'.status_code = 404
            /\ Found(documents, id) /\ documents[id].parse_status = "processing"
                   => response'.status_code = 400
            /\ response'.status_code \in {400, 404}
                   => documents' = documents /\ bg_tasks' = bg_tasks]_vars

\* C17 witness: a parse request answered 400 for a document being parsed.
C17_Witness ==
    /\ Answered("parse") /\ response.status_code = 400
    /\ documents[response.document_id].parse_status = "processing"
    /\ bg_tasks = <<>>

\* the two candidates of a cell at row k: from START and from CONT
Candidates(c, before, pen0, pen1, score) ==
    [from_start |-> FAdd(FAdd(before.dp[START], pen0), score),
     from_cont |-> FAdd(FAdd(before.dp[CONT], pen1), score)]

\* the candidates of the cell of state st at row k are equal
Tied(k, st) ==
    LET before == DpRows(cfg, s_start, s_cont, k - 1)[k - 1]
        cand == IF st = START
                THEN Candidates(cfg, before, cfg.pen_SS, cfg.pen_CS, s_start[k])
                ELSE Candidates(cfg, before, cfg.pen_SC, cfg.pen_CC, s_cont[k])
    IN  cand.from_start = cand.from_cont

\* the back-pointer of the cell of state st at row k
BackPointer(k, st) == DpRows(cfg, s_start, s_cont, k)[k].bt[st]

\* C18: on equal candidates the back-pointer takes the predecessor of the same
\* state: START for the START cell, CONT for the CONT cell.
C18_TiesKeepState ==
    Labelled =>
        \A k \in 1..(n - 1) : \A st \in {START, CONT} :
            Tied(k, st) => BackPointer(k, st) = st

\* C19: every reviewed position i is paired with i - 1 and with the first
\* block h of the span the decoder gave block i - 1, so h < i, also when the
\* decoder labelled i itself START.
C19_HeadOfPrecedingSpan ==
    \A e \in 1..Len(to_review) :
        LET t == to_review[e]
        IN  /\ t.prev_i = t.cur_i - 1
            /\ t.head_i = HeadOf(dp_states, t.cur_i - 1)
            /\ t.head_i < t.cur_i
            /\ Pairs(fblocks, to_review)[2 * (e - 1)]
                   = <<fblocks[t.cur_i - 1].text, fblocks[t.cur_i].text>>
            /\ Pairs(fblocks, to_review)[2 * (e - 1) + 1]
                   = <<fblocks[HeadOf(dp_states, t.cur_i - 1)].text,
                       fblocks[t.cur_i].text>>

\* delta of the e-th reviewed position: the scores at the places of its pairs
Delta(e) == scores[2 * (e - 1)] - scores[2 * (e - 1) + 1]

\* the re-ranker has scored the pairs of a non-empty review
ReviewScored == scores # <<>>

\* C20: after the review each reviewed position is START if its delta is at
\* most ce_delta_start, CONT if its delta is at least ce_delta_cont, and has
\* the decoder's label otherwise.
C20_TieBreakRule ==
    ReviewScored =>
        \A e \in 1..Len(to_review) :
            LET at == to_review[e].cur_i
            IN  /\ Delta(e) <= cfg.ce_delta_start => states[at] = START
                /\ Delta(e) >= cfg.ce_delta_cont => states[at] = CONT
                /\ Delta(e) > cfg.ce_delta_start /\ Delta(e) < cfg.ce_delta_cont
                       => states[at] = dp_states[at]

\* C20 witness: two reviewed positions, one forced away from the decoder's
\* label and one whose delta lies between the thresholds.
C20_Witness ==
    /\ ReviewScored
    /\ \E e, g \in 1..Len(to_review) :
        /\ Delta(e) >= cfg.ce_delta_cont
        /\ dp_states[to_review[e].cur_i] = START
        /\ states[to_review[e].cur_i] = CONT
        /\ Delta(g) > cfg.ce_delta_start /\ Delta(g) < cfg.ce_delta_cont

\* the first indices of the spans of a list
Starts(sp) == {sp[k][1] : k \in 1..Len(sp)}

\* the strong split has just run: no merge step has been taken yet
AfterSplit == (pc = "merge" /\ mi = 0) \/ (pc = "return" /\ merged = <<>>)

\* the second blocks of the label-derived spans that the strong split cuts at
CutPoints ==
    {raw_spans[k][2] : k \in {j \in 1..Len(raw_spans) :
        /\ Len(raw_spans[j]) >= 2
        /\ is_heading_shape(fblocks[raw_spans[j][1]].text)
        /\ ~is_enum_like(fblocks[raw_spans[j][2]].text)}}

\* C21: the strong split cuts every label-derived span of two blocks or more,
\* whose first block is heading-shaped and whose second is not enumeration-
\* like, into its first block and the rest; it leaves every other span as it
\* is and keeps the order: same indices in the same order, and the spans
\* start where the label-derived ones do and at the cut points only.
C21_HeadingStrongSplit ==
    AfterSplit =>
        /\ Flatten(spans) = Flatten(raw_spans)
        /\ \A k \in 1..Len(spans) : spans[k] # <<>>
        /\ Starts(spans) = Starts(raw_spans) \cup CutPoints

\* C21 witness: a split of a three-block span into the heading and the other
\* two, and nothing else.
C21_Witness ==
    /\ AfterSplit
    /\ raw_spans = <<<<0, 1, 2>>>>
    /\ spans = <<<<0>>, <<1, 2>>>>

\* the span of a list that holds block b
SpanOf(sp, b) == sp[CHOOSE k \in 1..Len(sp) : \E j \in 1..Len(sp[k]) : sp[k][j] = b]

\* block b is in a span of the list
Placed(sp, b) == \E k \in 1..Len(sp) : \E j \in 1..Len(sp[k]) : sp[k][j] = b

\* C22: a singleton appended to the span on its left was judged against the
\* first block of that very span: the left similarity that decided the merge
\* is its similarity to that block, hence at least 0.60.
C22_LeftMergeJudgedByItsSpan ==
    \A e \in 1..Len(merge_log) :
        merge_log[e].act = "left" /\ Placed(merged, merge_log[e].blk) =>
            LET b == merge_log[e].blk
                h == SpanOf(merged, b)[1]
            IN  /\ merge_log[e].left_sim = Cos(V, b, h)
                /\ Cos(V, b, h) >= 60

\* the scores are complete and handed to the decoder
Handed == pc = "decode"

\* s_start[k] before the prior was added
RawStart(k) == s_start[k] - cfg.bias_start - (IF k = 0 THEN 1000 ELSE 0)

\* the smoothed difference d after block k was scored
RECURSIVE DAfter(_)
DAfter(k) ==
    Smoothed(cfg, IF k = 0 THEN [num |-> 0, den |-> 1] ELSE DAfter(k - 1),
             RawStart(k) - s_cont[k])

\* headIndex after block k was scored
RECURSIVE HeadAfter(_)
HeadAfter(k) ==
    NextHead(cfg, fblocks, sig, IF k = 0 THEN None ELSE k - 1,
             IF k = 0 THEN None ELSE HeadAfter(k - 1), k, DAfter(k))

\* the semantic margin sp - sh of block k: 0 for block 0, which has neither
\* a previous block nor a head
MarginOf(k) ==
    IF k = 0 THEN 0
    ELSE CosTable[Abs(V[k - 1] - V[k]) + 1]
             - CosTable[Abs(V[HeadAfter(k - 1)] - V[k]) + 1]

\* the terms of startScore[k], from the texts and indents of the blocks
StartTerms(k) ==
    [enum |-> IF is_enum_like(fblocks[k].text) THEN cfg.w_enum ELSE 0,
     indent |->
        IF k = 0 THEN 0
        ELSE IF fblocks[k - 1].indent - fblocks[k].indent >= cfg.indent_jump
             THEN cfg.w_indent_back
        ELSE IF fblocks[k].indent - fblocks[k - 1].indent >= cfg.indent_jump
             THEN cfg.w_indent_forward
        ELSE 0,
     heading |-> IF is_heading_shape(fblocks[k].text) THEN cfg.w_heading ELSE 0,
     lead |->
        IF k > 0 /\ ends_colon(fblocks[k - 1].text) /\ is_enum_like(fblocks[k].text)
        THEN cfg.w_lead ELSE 0,
     sem |-> IF MarginOf(k) <= cfg.sem_margin_neg THEN cfg.w_sem_start ELSE 0,
     bias |-> cfg.bias_start,
     first |-> IF k = 0 THEN 1000 ELSE 0]

\* C23: the start score handed to the decoder is the sum of w_enum, the indent
\* term (back, else forward), w_heading, w_lead, w_sem_start, bias_start and
\* 10.0 for block 0, each under its condition, and nothing else.
C23_StartScoreComposition ==
    Handed =>
        \A k \in 0..(n - 1) :
            LET t == StartTerms(k)
            IN  s_start[k] = t.enum + t.indent + t.heading + t.lead + t.sem
                                 + t.bias + t.first

\* C23 witness: scores handed over in which one block has the lead-in term,
\* one an indent term and one the semantic term.
C23_Witness ==
    /\ Handed /\ n = 3
    /\ \E k \in 0..2 : StartTerms(k).lead # 0
    /\ \E k \in 0..2 : StartTerms(k).indent # 0
    /\ \E k \in 0..2 : StartTerms(k).sem # 0

\* the terms of continueScore[k], from the texts of the blocks
ContTerms(k) ==
    [soft |->
        IF k > 0 /\ (ends_soft(fblocks[k - 1].text)
                         \/ unclosed_bracket(fblocks[k - 1].text))
        THEN cfg.w_soft ELSE 0,
     sem |-> IF MarginOf(k) >= cfg.sem_margin_pos THEN cfg.w_sem_cont ELSE 0,
     short |->
        IF Len(Strip(fblocks[k].text)) < cfg.short_len_bias
        THEN cfg.short_len_cont_bonus ELSE 0]

\* C24: the continue score is w_soft if the block before ends softly or has an
\* unclosed bracket, plus w_sem_cont if the margin is at least sem_margin_pos,
\* plus the short-length bonus; no block has both semantic terms and block 0
\* has no w_soft.
C24_ContScoreComposition ==
    Handed =>
        \A k \in 0..(n - 1) :
            /\ s_cont[k] = ContTerms(k).soft + ContTerms(k).sem + ContTerms(k).short
            /\ ~(StartTerms(k).sem # 0 /\ ContTerms(k).sem # 0)
            /\ k = 0 => ContTerms(k).soft = 0

\* C24 witness: scores handed over in which a block after an unclosed bracket
\* has w_soft and a block has w_sem_cont and the short-length bonus.
C24_Witness ==
    /\ Handed
    /\ \E k \in 1..(n - 1) :
        /\ unclosed_bracket(fblocks[k - 1].text) /\ ~ends_soft(fblocks[k - 1].text)
        /\ ContTerms(k).soft # 0
    /\ \E k \in 0..(n - 1) : ContTerms(k).sem # 0 /\ ContTerms(k).short # 0

\* d after the step is alpha * d_prev + (1 - alpha) * (s_start[i] - s_cont[i]),
\* alpha = a / b in lowest terms; the difference itself when alpha is not in
\* (0, 1]
SmoothedStep ==
    LET d_raw == s_start'[i] - s_cont'[i]
        a == cfg.ema_alpha \div Gcd(cfg.ema_alpha, 100)
        b == 100 \div Gcd(cfg.ema_alpha, 100)
    IN  IF 0 < cfg.ema_alpha /\ cfg.ema_alpha <= 100
        THEN /\ d_prev'.den = b * d_prev.den
             /\ d_prev'.num = a * d_prev.num + (b - a) * d_raw * d_prev.den
        ELSE d_prev' = [num |-> d_raw, den |-> 1]

\* headIndex after block i by the hysteresis rule, d being d_prev after the step
HeadByRule ==
    IF \/ i = 0
       \/ i > 0 /\ fblocks[i - 1].indent - fblocks[i].indent >= cfg.indent_jump
       \/ is_heading_shape(fblocks[i].text)
    THEN i
    ELSE IF d_prev'.num >= 2 * cfg.sem_margin_pos * d_prev'.den THEN head_idx
    ELSE IF d_prev'.num <= 2 * cfg.sem_margin_neg * d_prev'.den THEN i
    ELSE head_idx

\* C25: scoring block i leaves headIndex = i for block 0, an indent back-jump
\* or a heading-shaped block; otherwise headIndex is kept if d >= 2 *
\* sem_margin_pos, is i if d <= 2 * sem_margin_neg, and is kept in between;
\* prevIndex = i and d_prev = d; headIndex <= prevIndex = i; the scores of the
\* other blocks are not touched.
C25_HysteresisUpdate ==
    [][LocalScore =>
        /\ head_idx' = HeadByRule
        /\ prev_idx' = i
        /\ SmoothedStep
        /\ d_prev'.den > 0
        /\ head_idx' # None /\ head_idx' <= prev_idx'
        /\ \A k \in DOMAIN s_start : k # i =>
               s_start'[k] = s_start[k] /\ s_cont'[k] = s_cont[k]]_vars

\* C25 witness: three blocks scored, the head moved to block 1 and kept at
\* block 2.
C25_Witness ==
    /\ pc = "score" /\ i = 3
    /\ head_idx = 1 /\ prev_idx = 2
    /\ ~is_heading_shape(fblocks[1].text)
    /\ fblocks[0].indent - fblocks[1].indent < cfg.indent_jump

\* C26: the stored file of every document that is not deleted can be read
\* back: get_file_content returns the bytes the document was uploaded with.
C26_StoredFilesRetrievable ==
    \A id \in 1..Len(documents) :
        ~documents[id].deleted =>
            get_file_content(documents, files, id) = documents[id].checksum

\* a span the strong split would cut: two blocks or more, the first heading-
\* shaped, the second not enumeration-like
HeadingLed(span) ==
    /\ Len(span) >= 2
    /\ is_heading_shape(fblocks[span[1]].text)
    /\ ~is_enum_like(fblocks[span[2]].text)

\* C27: no span of the returned list is one the strong split would cut.
C27_NoHeadingLedSpan ==
    Returned => \A k \in 1..Len(ret_spans) : ~HeadingLed(ret_spans[k])

\* C27 amended: right after the strong split the only spans it would cut are
\* remainders of spans it did cut, which it does not examine again: each
\* starts at a cut point. (The returned list can hold such spans: a remainder,
\* or a heading joined to its neighbour again by the merge.)
C27_OnlyRemaindersHeadingLed ==
    AfterSplit =>
        \A k \in 1..Len(spans) : HeadingLed(spans[k]) => spans[k][1] \in CutPoints

\* C27 witness: right after the split, a remainder that the split would cut.
C27_Witness ==
    /\ AfterSplit
    /\ \E k \in 1..Len(spans) : HeadingLed(spans[k]) /\ spans[k][1] \in CutPoints

\* the reviewed positions
ReviewedAt == {to_review[e].cur_i : e \in 1..Len(to_review)}

\* C28: the review is one batch over the decoder's labelling: the reviewed
\* positions, and the previous block and the head of each, are those of the
\* decoder's labels; exactly their pairs are scored; the label of a reviewed
\* position comes from its own delta and its own decoder label, and every
\* other position keeps the decoder's label, whatever was forced elsewhere.
C28_ReviewIsOneBatch ==
    ReviewScored =>
        /\ ReviewedAt = {k \in 1..(n - 1) : Abs(s_start[k] - s_cont[k]) <= cfg.tie_margin}
        /\ \A e \in 1..Len(to_review) :
               /\ to_review[e].prev_i = to_review[e].cur_i - 1
               /\ to_review[e].head_i = HeadOf(dp_states, to_review[e].cur_i)
               /\ \A g \in 1..Len(to_review) :
                      to_review[e].cur_i = to_review[g].cur_i => e = g
        /\ DOMAIN scores = 0..(2 * Len(to_review) - 1)
        /\ \A k \in 0..(n - 1) :
               /\ k \notin ReviewedAt => states[k] = dp_states[k]
               /\ \A e \in 1..Len(to_review) :
                      to_review[e].cur_i = k
                          => states[k] = ReviewedLabel(cfg, Delta(e), dp_states[k])

\* C28 witness: two reviewed positions; the first was forced away from the
\* decoder's label, so the head the later one would have under the forced
\* labels is not the head its pairs were built with.
C28_Witness ==
    /\ ReviewScored
    /\ \E e, g \in 1..Len(to_review) :
        /\ to_review[e].cur_i < to_review[g].cur_i
        /\ states[to_review[e].cur_i] # dp_states[to_review[e].cur_i]
        /\ HeadOf(states, to_review[g].cur_i) # to_review[g].head_i

\* the failures of the two providers, the only ones a call re-raises
ProviderFailures == {"emb_load", "emb_encode", "ce_load", "ce_predict"}

\* the call with mode = "contract" has ended after the call with the unknown
\* mode, both have returned, and the re-ranker scored alike in both
ContractCallAfter ==
    /\ pc = "done" /\ prior.known /\ mode = "contract"
    /\ Returned /\ prior.outcome = "returned"
    /\ scores = prior.scores

\* C29: a call whose mode is no key of config_map runs with the "contract"
\* profile (the profile at entry, the profile over the defaults from the
\* pre-filter on); it raises nothing but a provider's failure; and what it
\* returns, the same call with mode = "contract" returns too.
C29_UnknownModeIsContract ==
    /\ mode \in UnknownModes =>
           /\ cfg \in {config_map["contract"],
                       MergeCfg(DefaultCfg, config_map["contract"])}
           /\ outcome = "raised" => failed_at \in ProviderFailures
    /\ ContractCallAfter => ret_spans = prior.spans /\ ret_texts = prior.texts

\* C29 witness: both calls returned the same two spans or more, one of them of
\* two blocks or more.
C29_Witness ==
    /\ ContractCallAfter
    /\ Len(ret_spans) >= 2
    /\ \E k \in 1..Len(ret_spans) : Len(ret_spans[k]) >= 2
    /\ ret_spans = prior.spans

\* block k - 1 is heading-shaped or lies an indent back-jump behind its
\* previous block
HeadMovedTo(k) ==
    \/ is_heading_shape(fblocks[k].text)
    \/ k > 0 /\ fblocks[k - 1].indent - fblocks[k].indent >= cfg.indent_jump

\* C30: when block i is scored with headIndex equal to prevIndex, the margin
\* is 0 and the block gets neither semantic weight: its scores are the
\* structural terms alone; so is block 0, which has no previous block.
\* headIndex equals prevIndex for i = 1 and directly after a heading-shaped
\* block or an indent back-jump, and in every profile
\* sem_margin_neg < 0 < sem_margin_pos.
C30_NoSemanticTermAtHead ==
    [][LocalScore =>
          /\ cfg.sem_margin_neg < 0 /\ 0 < cfg.sem_margin_pos
          /\ i = 0 => prev_idx = None /\ head_idx = None
          /\ i = 1 => head_idx = prev_idx
          /\ (i >= 1 /\ HeadMovedTo(i - 1)) => head_idx = prev_idx
          /\ i >= 1 => prev_idx = i - 1
          /\ (i = 0 \/ head_idx = prev_idx) =>
                /\ Margin(V, prev_idx, head_idx, i) = 0
                /\ s_start'[i] = StartTerms(i).enum + StartTerms(i).indent
                                     + StartTerms(i).heading + StartTerms(i).lead
                /\ s_cont'[i] = ContTerms(i).soft + ContTerms(i).short]_vars

\* C30 witness: block 2 was scored right after the head had moved to block 1,
\* which is not heading-shaped; it is close enough to block 1 for w_sem_cont
\* against any lower similarity, and its continue score has no semantic term.
C30_Witness ==
    /\ Handed /\ n = 3
    /\ HeadAfter(1) = 1 /\ ~is_heading_shape(fblocks[1].text)
    /\ CosTable[Abs(V[1] - V[2]) + 1] >= cfg.sem_margin_pos
    /\ s_cont[2] = ContTerms(2).soft + ContTerms(2).short
    /\ RawStart(2) = StartTerms(2).enum + StartTerms(2).indent
                         + StartTerms(2).heading + StartTerms(2).lead

====
